---- MODULE Spec2Model ----
(***************************************************************************)
(* State-machine model of QuadViewAnalyzer's signal-selection and          *)
(* time-reference logic (QuadViewModel), with the QuadView handlers that   *)
(* complete each operation (placeholder refresh, workspace reset on load), *)
(* its debounced tree filter, and the stateless utilities of QuadModel     *)
(* (min_dict_value, merge_dicts, parse_conf, import_custom_data_points,    *)
(* generate_tree_model), the .mat decoder of model.helpers.mat_loader and  *)
(* the Colormap of assets.palettes.                                        *)
(*                                                                         *)
(* Specifications:                                                         *)
(*   Spec          selection and time reference, driven from the tree      *)
(*   SpecSession   the same operations with files dropped on the window    *)
(*                 (custom data points, .conf files) and get_signal_data   *)
(*   SpecMin       min_dict_value over nested mappings and sequences       *)
(*   SpecMerge     merge_dicts over mappings held in a heap of objects     *)
(*   SpecConf      parse_conf over files of a few short lines              *)
(*   SpecImport    import_custom_data_points over scripts of a few         *)
(*                 functions                                               *)
(*   SpecTree      generate_tree_model, the path lookups and the filter    *)
(*                 of the tree menu                                        *)
(*   SpecDecode    loadmat over what scipy read from a file                *)
(*   SpecGroups    selection and time reference on a recording with one    *)
(*                 parent name in two groups                               *)
(*   SpecClicks    left and right double clicks on the tree over the two   *)
(*                 stores                                                  *)
(*   SpecDrop      handle_dropped_files over short lists of dropped files  *)
(*   SpecConfLoad  parse_and_load_conf with its effects on the plot store  *)
(*   SpecInsight   the data insight panel: get_time_based_data_insight and *)
(*                 get_default_data_insight over both stores               *)
(*   SpecColors    the Colormap of the plots                               *)
(*   SpecFilter    set_filter_text / search_timer / apply_filter           *)
(*   FairSpecFilter  SpecFilter with a running event loop                  *)
(*                                                                         *)
(* Python values are modelled as tagged records of one shape:              *)
(*   tag = "arr"  : a numeric series, a = its elements                     *)
(*   tag = "dict" : a mapping, d = its items in insertion order, each      *)
(*                  item [k |-> key, v |-> value]                          *)
(*   tag = "none" : Python None                                            *)
(*   tag = "num"  : a scalar number, a = <<the number>>                    *)
(*   tag = "str"  : a text, a = <<its index in Texts>>                     *)
(*   tag = "list" : a sequence of arbitrary values, d = its elements       *)
(*   tag = "tuple": a tuple, d = its elements                              *)
(*   tag = "struct": a MATLAB struct as scipy returns it, d = its fields   *)
(*                  in the order of _fieldnames                            *)
(* Insertion order is kept because update_global_ts_ref inspects the first *)
(* value of every parent entry.  Series hold finite numbers (integers      *)
(* stand for MATLAB doubles); an exception that leaves a function is the   *)
(* result "raise", with the assignments made before it kept.               *)
(***************************************************************************)
EXTENDS Integers, Sequences, FiniteSets, TLC

VARIABLES
    loaded_data,            \* QuadViewModel.loaded_data
    mat_set,                \* QuadViewModel.mat has the suffix ".mat"
    selected_signals_data,  \* QuadViewModel.selected_signals_data
    selected_di_only_data,  \* QuadViewModel.selected_di_only_data
    global_ts_ref,          \* QuadViewModel.global_ts_ref
    loaded_ts_ref,          \* QuadViewModel.loaded_ts_ref
    placeholder,            \* text shown in the reference-timestamp bar
    last,                   \* the most recent call: operation, signal path, outcome
    search_timer,           \* QuadViewModel.search_timer: active, time left until timeout
    latest_search_text,     \* QuadViewModel.latest_search_text
    filter_regex,           \* the pattern CustomFilterProxyModel filters with
    filter_log,             \* what happened since the latest set_filter_text
    arg,                    \* the arguments of a call of a QuadModel utility
    out,                    \* its result, once it has run
    cm                      \* QuadView.cm, the Colormap of the plots

\* QuadViewModel's selection and time-reference state
vmVars == <<loaded_data, mat_set, selected_signals_data, selected_di_only_data,
            global_ts_ref, loaded_ts_ref, placeholder, last>>

\* QuadViewModel's search filter
filterVars == <<search_timer, latest_search_text, filter_regex, filter_log>>

\* a call of a QuadModel utility
utilVars == <<arg, out>>

vars == <<loaded_data, mat_set, selected_signals_data, selected_di_only_data,
          global_ts_ref, loaded_ts_ref, placeholder, last,
          search_timer, latest_search_text, filter_regex, filter_log, arg, out, cm>>

-----------------------------------------------------------------------------
(* Bounds                                                                  *)

\* The reference values a caller submits are 0..MaxRef.
MaxRef == 1

\* The free line of a .conf file has up to MaxRowLen characters.
MaxRowLen == 3

\* The search text is changed up to MaxCalls times.
MaxCalls == 3

\* The delay of the search timer passes in Ticks steps.
Ticks == 2

\* A script holds up to MaxFuncs unary functions.
MaxFuncs == 3

\* Up to MaxDrop files are dropped on the window at once.
MaxDrop == 3

\* The slider times run from 0 to MaxTime.
MaxTime == 3

\* The palette has PaletteSize colours.
PaletteSize == 3

-----------------------------------------------------------------------------
(* Python values                                                           *)

Arr(s)  == [tag |-> "arr",  a |-> s,    d |-> <<>>]
Dict(p) == [tag |-> "dict", a |-> <<>>, d |-> p]
PyNone  == [tag |-> "none", a |-> <<>>, d |-> <<>>]
Item(key, val) == [k |-> key, v |-> val]

\* a scalar number, a text (by its index in Texts), a sequence of values
Num(n)   == [tag |-> "num",  a |-> <<n>>, d |-> <<>>]
Str(i)   == [tag |-> "str",  a |-> <<i>>, d |-> <<>>]
List(vs) == [tag |-> "list", a |-> <<>>,  d |-> vs]

\* a mat_struct with its fields in the order of _fieldnames
Struct(p) == [tag |-> "struct", a |-> <<>>, d |-> p]

\* a tuple, as a function returns it
Tuple(vs) == [tag |-> "tuple", a |-> <<>>, d |-> vs]

\* The texts a dataset holds: one float() rejects, one it reads as 2.0.
Texts == <<"abc", "2">>

EmptyDict == Dict(<<>>)
EmptyList == Arr(<<>>)

IsDict(x) == x.tag = "dict"

\* key in dict
Has(x, key) == \E i \in 1..Len(x.d) : x.d[i].k = key

\* dict[key], for a key that is present
Get(x, key) == x.d[CHOOSE i \in 1..Len(x.d) : x.d[i].k = key].v

\* dict.get(key, default)
GetOr(x, key, default) == IF Has(x, key) THEN Get(x, key) ELSE default

\* dict[key] = val : an existing key keeps its position, a new key goes last
Put(x, key, val) ==
    IF Has(x, key)
    THEN Dict([i \in 1..Len(x.d) |-> IF x.d[i].k = key THEN Item(key, val) ELSE x.d[i]])
    ELSE Dict(Append(x.d, Item(key, val)))

\* del dict[key]
Del(x, key) == Dict(SelectSeq(x.d, LAMBDA e : e.k # key))

\* len(dict)
DictLen(x) == Len(x.d)

\* list(dict.keys()); the _fieldnames of a struct
KeyList(x) == [i \in 1..Len(x.d) |-> x.d[i].k]

\* Optional float: None, or a number.
NoFloat == [some |-> FALSE, v |-> 0]
Float(n) == [some |-> TRUE, v |-> n]

\* numpy: array - scalar, element-wise
ArrMinus(s, r) == [i \in 1..Len(s) |-> s[i] - r]

-----------------------------------------------------------------------------
(* The datasets the .mat decoder returns, and the inputs of the operations *)

\* {"Radar": {"TimestampLogfile": [1,2], "Range": [10,11], "Speed": [7,8],
\*            "Sub": {"x": [2,4], "y": [5,6]}},
\*  "Lidar": {"Distance": [3,4]}}
DataRadar ==
    Dict(<< Item("Lidar", Dict(<< Item("Distance", Arr(<<3, 4>>)) >>)),
            Item("Radar", Dict(<< Item("Range", Arr(<<10, 11>>)),
                                  Item("Speed", Arr(<<7, 8>>)),
                                  Item("Sub", Dict(<< Item("x", Arr(<<2, 4>>)),
                                                      Item("y", Arr(<<5, 6>>)) >>)),
                                  Item("TimestampLogfile", Arr(<<1, 2>>)) >>)) >>)

\* {"Radar": {"TimestampLogfile": [2,3], "Range": [20,21]}}
DataOther ==
    Dict(<< Item("Radar", Dict(<< Item("Range", Arr(<<20, 21>>)),
                                  Item("TimestampLogfile", Arr(<<2, 3>>)) >>)) >>)

\* What loadmat can return: a recording, another recording, a file without variables.
Datasets == {DataRadar, DataOther, EmptyDict}

\* The file suffixes handed to set_and_load_mat.
Suffixes == {".mat", ".dat"}

\* The signal paths handed to select_item / deselect_item.
Paths == { <<"Radar">>,                  \* too short
           <<"Radar", "Range">>,         \* plain series with a time axis
           <<"Radar", "Sub">>,           \* mapping child carrying x / y
           <<"Lidar", "Distance">>,      \* group without TimestampLogfile
           <<"Nope", "Range">>,          \* group key missing
           <<"Radar", "Range", "x">> }   \* passes through a leaf series

Stores == {"signals", "di"}

\* Arguments of update_global_ts_ref: a float, a string, None.
InFloat(n) == [kind |-> "float", n |-> n, s |-> ""]
InStr(str) == [kind |-> "str",   n |-> 0, s |-> str]
InNone     == [kind |-> "none",  n |-> 0, s |-> ""]

RefInputs == {InFloat(n) : n \in 0..MaxRef} \cup {InStr("1"), InStr("abc"), InNone}

\* The decimal digits, for float(str).
Digits == <<"0", "1", "2", "3", "4", "5", "6", "7", "8", "9">>

\* float(x): the number, or NoFloat where Python raises ValueError / TypeError.
ToFloat(x) ==
    CASE x.kind = "float" -> Float(x.n)
      [] x.kind = "str" ->
            IF \E i \in 1..Len(Digits) : Digits[i] = x.s
            THEN Float((CHOOSE i \in 1..Len(Digits) : Digits[i] = x.s) - 1)
            ELSE NoFloat
      [] OTHER -> NoFloat

\* The argument reset_global_ts_ref passes on: loaded_ts_ref, a float or None.
AsInput(opt) == IF opt.some THEN InFloat(opt.v) ELSE InNone

-----------------------------------------------------------------------------
(* QuadModel                                                               *)

invalid_signal(path) == Len(path) < 2

\* isinstance(arr, (list, tuple, np.ndarray))
isinstance_sequence(x) == x.tag \in {"arr", "list", "tuple"}

\* len(val) and val[0] of a sequence
SeqLen(x) == IF x.tag = "arr" THEN Len(x.a) ELSE Len(x.d)
SeqFirst(x) == IF x.tag = "arr" THEN Num(x.a[1]) ELSE x.d[1]

\* the candidate taken from the end of the sequence
FirstOrSelf_Last(val) ==
    IF isinstance_sequence(val) /\ SeqLen(val) > 0
    THEN (IF val.tag = "arr" THEN Num(val.a[Len(val.a)]) ELSE val.d[Len(val.d)])
    ELSE val

\* "candidate = val[0] if is_seq(val) and len(val) > 0 else val"
FirstOrSelf(val) ==
    IF isinstance_sequence(val) /\ SeqLen(val) > 0 THEN SeqFirst(val) ELSE val

\* float(candidate): NoFloat where it raises TypeError / ValueError (None, a mapping,
\* a sequence that is empty or holds more than a number, a text that is no number).
Coerce(x) ==
    CASE x.tag = "num" -> Float(x.a[1])
      [] x.tag = "str" -> ToFloat(InStr(Texts[x.a[1]]))
      [] OTHER         -> NoFloat

\* "[item for item in val if isinstance(item, dict)]"
DictElements(x) == IF x.tag \in {"list", "tuple"} THEN {x.d[i] : i \in {j \in 1..Len(x.d) : IsDict(x.d[j])}}
                   ELSE {}

\* The candidates min_dict_value collects while it empties its stack: for every entry
\* whose key is in keys, float(FirstOrSelf(value)) unless float() rejects it; the walk
\* goes on into every mapping value and into the mappings a sequence value holds.
RECURSIVE Candidates(_, _)
Candidates(data, keys) ==
    IF IsDict(data)
    THEN UNION { (IF data.d[i].k \in keys /\ Coerce(FirstOrSelf(data.d[i].v)).some
                  THEN {Coerce(FirstOrSelf(data.d[i].v)).v} ELSE {})
                 \cup (IF IsDict(data.d[i].v) THEN Candidates(data.d[i].v, keys)
                       ELSE UNION {Candidates(e, keys) : e \in DictElements(data.d[i].v)})
                 : i \in 1..Len(data.d) }
    ELSE UNION {Candidates(e, keys) : e \in DictElements(data)}

min_dict_value(data, keys) ==
    LET c == Candidates(data, keys)
    IN  IF c = {} THEN NoFloat
        ELSE Float(CHOOSE m \in c : \A n \in c : m <= n)

-----------------------------------------------------------------------------
(* QuadModel.parse_conf. A text is the sequence of its characters, a file   *)
(* the sequence of its lines (without the line terminator, which strip()    *)
(* removes).                                                                *)

\* str.strip() that removes leading blanks only
Strip_Left(str) ==
    LET solid == {i \in 1..Len(str) : str[i] # " "}
    IN  IF solid = {} THEN <<>>
        ELSE SubSeq(str, CHOOSE i \in solid : \A j \in solid : i <= j, Len(str))

\* str.strip(): the text without its leading and trailing blanks
Strip(str) ==
    LET solid == {i \in 1..Len(str) : str[i] # " "}
    IN  IF solid = {} THEN <<>>
        ELSE SubSeq(str, CHOOSE i \in solid : \A j \in solid : i <= j,
                         CHOOSE i \in solid : \A j \in solid : i >= j)

\* sep in str
Contains(str, sep) == \E i \in 1..Len(str) : str[i] = sep

\* str.startswith(c)
StartsWith(str, c) == Len(str) > 0 /\ str[1] = c

\* str.split(sep) for a one-character separator: the pieces between its occurrences
RECURSIVE Split(_, _)
Split(str, sep) ==
    IF ~Contains(str, sep) THEN <<str>>
    ELSE LET i == CHOOSE i \in 1..Len(str) :
                      str[i] = sep /\ \A j \in 1..(i - 1) : str[j] # sep
         IN  <<SubSeq(str, 1, i - 1)>> \o Split(SubSeq(str, i + 1, Len(str)), sep)

\* "[item.strip() for item in row.split(sep) if item.strip()]"
Tokens(row, sep) ==
    LET pieces == Split(row, sep)
        kept   == SelectSeq(pieces, LAMBDA item : Strip(item) # <<>>)
    IN  [i \in 1..Len(kept) |-> Strip(kept[i])]

\* The loop "for row in fid" from the rows given, with the two lists so far.
RECURSIVE ParseRows(_, _, _, _)
ParseRows(rows, sep, secondary_sep, acc) ==
    IF rows = <<>> THEN acc
    ELSE LET row == Strip(Head(rows))
         IN  IF row = <<>> \/ StartsWith(row, "#")
             THEN ParseRows(Tail(rows), sep, secondary_sep, acc)
             ELSE IF Contains(row, secondary_sep)
             THEN ParseRows(Tail(rows), sep, secondary_sep,
                            [acc EXCEPT !.secondary_data = Append(@, Tokens(row, secondary_sep))])
             ELSE ParseRows(Tail(rows), sep, secondary_sep,
                            [acc EXCEPT !.parsed_data = Append(@, Tokens(row, sep))])

\* parse_conf(path, sep, secondary_sep) for a path with the given suffix whose file
\* holds the given rows: (parsed_data, secondary_data)
parse_conf(suffix, rows, sep, secondary_sep) ==
    IF suffix # ".conf" THEN [parsed_data |-> <<>>, secondary_data |-> <<>>]
    ELSE ParseRows(rows, sep, secondary_sep, [parsed_data |-> <<>>, secondary_data |-> <<>>])

-----------------------------------------------------------------------------
(* QuadModel.merge_dicts. Mappings are objects with identity: heap[id] is   *)
(* the content of the mapping object id, its items in insertion order; an   *)
(* item's value is a reference to a mapping object or a leaf (a number, a   *)
(* series), which merge_dicts only passes on.                               *)

Ref(id)   == [ref |-> TRUE,  id |-> id, leaf |-> PyNone]
Leaf(val) == [ref |-> FALSE, id |-> 0,  leaf |-> val]

\* Build the objects of a nested mapping on the heap, children first:
\* [heap, id] with id the object of the mapping itself.
RECURSIVE Alloc(_, _)
RECURSIVE AllocItems(_, _, _)
AllocItems(heap, items, cells) ==
    IF items = <<>> THEN [heap |-> heap, cells |-> cells]
    ELSE LET e == Head(items)
         IN  IF IsDict(e.v)
             THEN LET r == Alloc(heap, e.v)
                  IN  AllocItems(r.heap, Tail(items), Append(cells, Item(e.k, Ref(r.id))))
             ELSE AllocItems(heap, Tail(items), Append(cells, Item(e.k, Leaf(e.v))))

Alloc(heap, val) ==
    LET r == AllocItems(heap, val.d, <<>>)
    IN  [heap |-> Append(r.heap, r.cells), id |-> Len(r.heap) + 1]

\* The nested mapping an object holds, read through its references.
RECURSIVE Deref(_, _)
Deref(heap, id) ==
    Dict([i \in 1..Len(heap[id]) |->
            Item(heap[id][i].k,
                 IF heap[id][i].v.ref THEN Deref(heap, heap[id][i].v.id)
                 ELSE heap[id][i].v.leaf)])

\* key in obj, obj[key], obj[key] = cell
HasKey(heap, id, key) == \E i \in 1..Len(heap[id]) : heap[id][i].k = key
CellOf(heap, id, key) == heap[id][CHOOSE i \in 1..Len(heap[id]) : heap[id][i].k = key].v
SetCell(heap, id, key, cell) ==
    [heap EXCEPT ![id] =
        IF HasKey(heap, id, key)
        THEN [i \in 1..Len(@) |-> IF @[i].k = key THEN Item(key, cell) ELSE @[i]]
        ELSE Append(@, Item(key, cell))]

\* the nested mapping used as it is, without a copy
CopyObject_Alias(heap, id) == [heap |-> heap, id |-> id]

\* dict.copy(): a new object with the same items (shallow)
CopyObject(heap, id) == [heap |-> Append(heap, heap[id]), id |-> Len(heap) + 1]

\* The loop "for key, source_val in current_source.items()" from the items given:
\* the heap and the stack afterwards. isinstance(current_source, dict) is true whenever
\* the loop runs, so the test is on current_base[key] alone.
RECURSIVE MergeItems(_, _, _, _)
MergeItems(heap, stack, current_base, items) ==
    IF items = <<>> THEN [heap |-> heap, stack |-> stack]
    ELSE LET key        == Head(items).k
             source_val == Head(items).v
         IN  IF HasKey(heap, current_base, key) /\ CellOf(heap, current_base, key).ref
             THEN LET c == CopyObject(heap, CellOf(heap, current_base, key).id)
                  IN  MergeItems(SetCell(c.heap, current_base, key, Ref(c.id)),
                                 Append(stack, [base |-> c.id, source |-> source_val]),
                                 current_base, Tail(items))
             ELSE MergeItems(SetCell(heap, current_base, key, source_val), stack,
                             current_base, Tail(items))

\* "while stack: current_base, current_source = stack.pop(); ...". A current_source
\* that is no mapping has no .items(): AttributeError leaves the function.
RECURSIVE MergeLoop(_, _)
MergeLoop(heap, stack) ==
    IF stack = <<>> THEN [heap |-> heap, raised |-> FALSE]
    ELSE LET top  == stack[Len(stack)]
             rest == SubSeq(stack, 1, Len(stack) - 1)
         IN  IF ~top.source.ref THEN [heap |-> heap, raised |-> TRUE]
             ELSE LET r == MergeItems(heap, rest, top.base, heap[top.source.id])
                  IN  MergeLoop(r.heap, r.stack)

\* merge_dicts(base_dict, override_dict) on the objects base and override:
\* the heap afterwards, the object returned, raised when an exception left the call.
merge_dicts(heap, base_dict, override_dict) ==
    LET m == CopyObject(heap, base_dict)
        r == MergeLoop(m.heap, << [base |-> m.id, source |-> Ref(override_dict)] >>)
    IN  [heap |-> r.heap, result |-> m.id, raised |-> r.raised]

-----------------------------------------------------------------------------
(* QuadModel.import_custom_data_points. The dataset is a mapping object on  *)
(* the heap; a candidate is a function of the user's script, given by what  *)
(* it does with its argument and what it returns.                           *)

\* A candidate function of the script:
\*   write   "none"   : leaves its argument alone
\*           "nested" : data["Radar"]["Range"] = [0]
\*           "clear"  : data.clear()
\*   returns "raise"  : raises an exception
\*           "value"  : returns value
\*           "read"   : returns (data["Radar"]["TimestampLogfile"], data["Radar"]["Range"])
Func(name, write, returns, value) ==
    [name |-> name, write |-> write, returns |-> returns, value |-> value]

\* data[parent][child] with data the object id: the cell, or missing (KeyError, or the
\* TypeError of subscripting a series)
Lookup(heap, id, parent, child) ==
    IF HasKey(heap, id, parent) /\ CellOf(heap, id, parent).ref
          /\ HasKey(heap, CellOf(heap, id, parent).id, child)
    THEN [missing |-> FALSE, cell |-> CellOf(heap, CellOf(heap, id, parent).id, child)]
    ELSE [missing |-> TRUE, cell |-> Leaf(PyNone)]

\* The value a cell holds.
CellValue(heap, cell) == IF cell.ref THEN Deref(heap, cell.id) ELSE cell.leaf

\* func(temp_data): the heap afterwards, whether an exception left the function,
\* and the value returned.
CallFunc(heap, temp_data, func) ==
    LET failed == [heap |-> heap, raised |-> TRUE, result |-> PyNone]
        wrote  ==
            CASE func.write = "nested" ->
                    IF HasKey(heap, temp_data, "Radar") /\ CellOf(heap, temp_data, "Radar").ref
                    THEN [failed EXCEPT !.raised = FALSE,
                                        !.heap = SetCell(heap, CellOf(heap, temp_data, "Radar").id,
                                                         "Range", Leaf(Arr(<<0>>)))]
                    ELSE failed
              [] func.write = "clear" ->
                    [failed EXCEPT !.raised = FALSE, !.heap = [heap EXCEPT ![temp_data] = <<>>]]
              [] OTHER -> [failed EXCEPT !.raised = FALSE]
        ts  == Lookup(wrote.heap, temp_data, "Radar", "TimestampLogfile")
        val == Lookup(wrote.heap, temp_data, "Radar", "Range")
    IN  IF wrote.raised \/ func.returns = "raise" THEN [failed EXCEPT !.heap = wrote.heap]
        ELSE IF func.returns = "value" THEN [wrote EXCEPT !.result = func.value]
        ELSE IF ts.missing \/ val.missing THEN [failed EXCEPT !.heap = wrote.heap]
        ELSE [wrote EXCEPT !.result = Tuple(<< CellValue(wrote.heap, ts.cell),
                                               CellValue(wrote.heap, val.cell) >>)]

\* a copy of the top-level mapping only
deepcopy_Shallow(heap, id) == CopyObject(heap, id)

\* copy.deepcopy(data): new objects for the mapping and for every mapping below it
deepcopy(heap, id) == Alloc(heap, Deref(heap, id))

\* "if isinstance(x, (int, float)): x = np.array([float(x)])"
Standardize(x) == IF x.tag = "num" THEN Arr(x.a) ELSE x

\* len(x): None has none (TypeError)
HasLen(x) == x.tag \in {"arr", "list", "tuple", "dict"}
PyLen(x)  == IF x.tag = "arr" THEN Len(x.a) ELSE Len(x.d)

\* The loop "for candidate in candidates" from the candidates given, with the
\* custom_items so far. Only the call of the function is inside the try block: an x
\* or y without a length makes len() raise TypeError, which leaves
\* import_custom_data_points ("len(x) == 0 or len(y) == 0" asks y only when x is
\* not empty).
RECURSIVE ImportLoop(_, _, _, _)
ImportLoop(heap, data, candidates, custom_items) ==
    IF candidates = <<>> THEN [heap |-> heap, ret |-> custom_items, raised |-> FALSE]
    ELSE LET func_name == Head(candidates).name
             temp_data == deepcopy(heap, data)
             call      == CallFunc(temp_data.heap, temp_data.id, Head(candidates))
             result    == call.result
             x         == Standardize(result.d[1])
             y         == Standardize(result.d[2])
         IN  IF call.raised
             THEN ImportLoop(call.heap, data, Tail(candidates), custom_items)
             ELSE IF ~(result.tag = "tuple" /\ Len(result.d) = 2)
             THEN ImportLoop(call.heap, data, Tail(candidates), custom_items)
             ELSE IF ~HasLen(x)
             THEN [heap |-> call.heap, ret |-> EmptyDict, raised |-> TRUE]
             ELSE IF PyLen(x) = 0
             THEN ImportLoop(call.heap, data, Tail(candidates), custom_items)
             ELSE IF ~HasLen(y)
             THEN [heap |-> call.heap, ret |-> EmptyDict, raised |-> TRUE]
             ELSE IF PyLen(y) = 0
             THEN ImportLoop(call.heap, data, Tail(candidates), custom_items)
             ELSE ImportLoop(call.heap, data, Tail(candidates),
                             Put(custom_items, func_name,
                                 Dict(<< Item("x", x), Item("y", y) >>)))

\* import_custom_data_points(filepath, data) for a script whose unary functions are
\* candidates, in the order of dir(module) (by name): the heap afterwards, the
\* mapping returned, raised when an exception left the call.
import_custom_data_points(heap, data, candidates) ==
    IF candidates = <<>> THEN [heap |-> heap, ret |-> EmptyDict, raised |-> FALSE]
    ELSE ImportLoop(heap, data, candidates, EmptyDict)

-----------------------------------------------------------------------------
(* model.helpers.mat_loader. Names are compared by their characters.        *)

\* The characters of the names of variables, fields and tree items.
Spelling(text) ==
    CASE text = "a"  -> <<"a">>
      [] text = "b"  -> <<"b">>
      [] text = "c"  -> <<"c">>
      [] text = "B"  -> <<"B">>
      [] text = "C"  -> <<"C">>
      [] text = "ab" -> <<"a", "b">>
      [] text = "Ab" -> <<"A", "b">>
      [] text = "ba" -> <<"b", "a">>
      [] text = "Ba" -> <<"B", "a">>
      [] OTHER       -> <<>>

\* A character folded to lower case (str.lower(), CaseInsensitiveOption).
Fold(ch) ==
    CASE ch = "A" -> "a"
      [] ch = "B" -> "b"
      [] ch = "C" -> "c"
      [] OTHER    -> ch

\* The code point order of the lower-case letters.
CodePoint(ch) == CASE ch = "a" -> 97 [] ch = "b" -> 98 [] ch = "c" -> 99 [] OTHER -> 0

\* s.lower() < t.lower(), as Python compares texts
LowerLess(s, t) ==
    LET x == Spelling(s)
        y == Spelling(t)
    IN  \E i \in 1..(Len(x) + 1) :
            /\ i <= Len(y)
            /\ \A j \in 1..(i - 1) : Fold(x[j]) = Fold(y[j])
            /\ i > Len(x) \/ CodePoint(Fold(x[i])) < CodePoint(Fold(y[i]))

\* sorted(names, key=lambda s: s.lower()): a stable sort
SortedLower(names) ==
    LET place(i) == 1 + Cardinality({j \in 1..Len(names) :
                                        \/ LowerLess(names[j], names[i])
                                        \/ ~LowerLess(names[i], names[j]) /\ j < i})
    IN  [q \in 1..Len(names) |-> names[CHOOSE i \in 1..Len(names) : place(i) = q]]

IsStruct(x) == x.tag = "struct"

\* The loop "for fieldname in fieldnames" of _todict_iterative with the fields of one
\* struct, and the structs below it; the stack of the code only puts off the filling
\* of a new_dict that is already in its place.
RECURSIVE FillDict(_, _, _)
FillDict(current_dict, current_obj, fieldnames) ==
    IF fieldnames = <<>> THEN current_dict
    ELSE LET fieldname == Head(fieldnames)
             elem      == Get(current_obj, fieldname)
         IN  FillDict(Put(current_dict, fieldname,
                          IF IsStruct(elem)
                          THEN FillDict(EmptyDict, elem, SortedLower(KeyList(elem)))
                          ELSE elem),
                      current_obj, Tail(fieldnames))

\* _todict_iterative(matobj)
todict_iterative(matobj) == FillDict(EmptyDict, matobj, SortedLower(KeyList(matobj)))

\* The loop of _check_keys over the sorted keys: data[key] is assigned in place.
RECURSIVE CheckLoop(_, _)
CheckLoop(data, keys) ==
    IF keys = <<>> THEN data
    ELSE CheckLoop(IF IsStruct(Get(data, Head(keys)))
                   THEN Put(data, Head(keys), todict_iterative(Get(data, Head(keys))))
                   ELSE data,
                   Tail(keys))

\* _check_keys(data)
check_keys(data) == CheckLoop(data, SortedLower(KeyList(data)))

\* The metadata scipy adds to what it reads.
MetaKeys == <<"__header__", "__version__", "__globals__">>

\* loadmat(filepath), given what scipy.io.loadmat returned for the file
loadmat(data) == check_keys(Del(Del(Del(data, MetaKeys[1]), MetaKeys[2]), MetaKeys[3]))

-----------------------------------------------------------------------------
(* The tree menu. A QStandardItemModel is the sequence of its items in the  *)
(* order they were created, each with its text, its parent and its rows     *)
(* (the ids of its children, in row order), and the rows of the invisible   *)
(* root item. The id 0 stands for the invisible root item where a parent is *)
(* asked to list its rows, and for None as the parent() of a top-level item.*)

\* QStandardItemModel()
EmptyModel == [items |-> <<>>, rows |-> <<>>]

\* item.rowCount() / item.child(row), as the sequence of the children
RowsOf(model, item) == IF item = 0 THEN model.rows ELSE model.items[item].rows

\* key_item = QStandardItem(text); parent.appendRow(key_item)
appendRow(model, parent, text) ==
    LET key_item == Len(model.items) + 1
        created  == Append(model.items, [text |-> text, parent |-> parent, rows |-> <<>>])
    IN  IF parent = 0
        THEN [items |-> created, rows |-> Append(model.rows, key_item)]
        ELSE [items |-> [created EXCEPT ![parent].rows = Append(@, key_item)],
              rows  |-> model.rows]

\* The loop "for key, value in current_data.items()" from the items given: the model
\* and the stack afterwards.
RECURSIVE AppendItems(_, _, _, _)
AppendItems(model, stack, parent, items) ==
    IF items = <<>> THEN [model |-> model, stack |-> stack]
    ELSE LET added == appendRow(model, parent, Head(items).k)
         IN  AppendItems(added,
                         IF IsDict(Head(items).v)
                         THEN Append(stack, [parent |-> Len(added.items), data |-> Head(items).v])
                         ELSE stack,
                         parent, Tail(items))

\* "while stack: parent, current_data = stack.pop(); ..."
RECURSIVE TreeLoop(_, _)
TreeLoop(model, stack) ==
    IF stack = <<>> THEN model
    ELSE LET top  == stack[Len(stack)]
             rest == SubSeq(stack, 1, Len(stack) - 1)
             r    == IF IsDict(top.data) THEN AppendItems(model, rest, top.parent, top.data.d)
                     ELSE [model |-> model, stack |-> rest]
         IN  TreeLoop(r.model, r.stack)

\* generate_tree_model(data)
generate_tree_model(data) ==
    IF data = EmptyDict THEN EmptyModel
    ELSE TreeLoop(EmptyModel, << [parent |-> 0, data |-> data] >>)

\* the path without the texts of the ancestors
qt_item_to_path_Own(model, item) == IF item = 0 THEN <<>> ELSE <<model.items[item].text>>

\* qt_item_to_path(item): "while item is not None: item_path.insert(0, item.text());
\* item = item.parent()"
RECURSIVE qt_item_to_path(_, _)
qt_item_to_path(model, item) ==
    IF item = 0 THEN <<>>
    ELSE Append(qt_item_to_path(model, model.items[item].parent), model.items[item].text)

\* The inner loop of find_tree_item_by_path: the first child of current_item whose
\* text is key.
FirstRow(model, current_item, key) ==
    LET rows == RowsOf(model, current_item)
        hits == {r \in 1..Len(rows) : model.items[rows[r]].text = key}
    IN  IF hits = {} THEN [found |-> FALSE, item |-> 0]
        ELSE [found |-> TRUE, item |-> rows[CHOOSE r \in hits : \A q \in hits : r <= q]]

\* find_tree_item_by_path(item_path) from current_item on: found FALSE is None.
RECURSIVE FindFrom(_, _, _)
FindFrom(model, current_item, item_path) ==
    IF item_path = <<>> THEN [found |-> TRUE, item |-> current_item]
    ELSE LET hit == FirstRow(model, current_item, Head(item_path))
         IN  IF ~hit.found THEN hit
             ELSE FindFrom(model, hit.item, Tail(item_path))

find_tree_item_by_path(model, item_path) == FindFrom(model, 0, item_path)

-----------------------------------------------------------------------------
(* QuadViewModel: the operations as functions of the state they read       *)

\* is_mat_loaded without its test
is_mat_loaded_Always(mat, data) == TRUE

is_mat_loaded(mat, data) == mat /\ data # EmptyDict

\* Truthiness of the parent name in "if not parent" (None and "" are falsy).
Truthy(name) == name # ""

\* f"{parent}/{child}", kept as its pieces
QualifiedName(parent, child) == <<parent, "/", child>>
NoName == <<>>

\* The loop "for key in signal_path[:-1]: temp_data = temp_data.get(key, {})".
\* A series has no .get: the walk raises AttributeError when it must step from one.
RECURSIVE Traverse(_, _)
Traverse(temp_data, keys) ==
    IF keys = <<>> THEN [raised |-> FALSE, val |-> temp_data]
    ELSE IF ~IsDict(temp_data) THEN [raised |-> TRUE, val |-> temp_data]
    ELSE Traverse(GetOr(temp_data, Head(keys), EmptyDict), Tail(keys))

\* the copy handed back without the subtraction
ShiftedCopy_NoShift(raw, ref) == [raised |-> raw.tag = "none", val |-> raw]

\* "ts = raw.copy(); if global_ts_ref is not None and global_ts_ref != 0: ts -= global_ts_ref"
\* None has no .copy(), and a mapping cannot be decremented by a float: both raise.
ShiftedCopy(raw, ref) ==
    CASE raw.tag = "none" -> [raised |-> TRUE, val |-> raw]
      [] raw.tag = "dict" -> [raised |-> ref.some /\ ref.v # 0, val |-> raw]
      [] OTHER            -> [raised |-> FALSE,
                              val |-> IF ref.some /\ ref.v # 0
                                      THEN Arr(ArrMinus(raw.a, ref.v)) ELSE raw]

\* the TimestampLogfile branch taken without its test
HasTimeAxis_Always(temp_data) == TRUE

\* elif "TimestampLogfile" in temp_data
HasTimeAxis(temp_data) == Has(temp_data, "TimestampLogfile")

\* a select that writes ts and ts_raw of the group at hand whether or not the parent
\* is in the store already
select_item_Refresh(mem, signal_path, data, ref) ==
    IF invalid_signal(signal_path) THEN [ret |-> "false", mem |-> mem]
    ELSE
    LET child  == signal_path[Len(signal_path)]
        parent == signal_path[Len(signal_path) - 1]
        walk   == Traverse(data, SubSeq(signal_path, 1, Len(signal_path) - 1))
        raw    == GetOr(walk.val, "TimestampLogfile", PyNone)
        ts     == ShiftedCopy(raw, ref)
        entry  == GetOr(mem, parent, EmptyDict)
    IN  IF walk.raised \/ ~IsDict(walk.val) \/ ~HasTimeAxis(walk.val) \/ ts.raised
           \/ IsDict(GetOr(walk.val, child, EmptyList))
        THEN [ret |-> "false", mem |-> mem]
        ELSE [ret |-> "true",
              mem |-> Put(mem, parent,
                          Put(Put(Put(entry, "ts", ts.val), "ts_raw", raw),
                              child, GetOr(walk.val, child, EmptyList)))]

\* select_item(signal_path, backend_memory): ret is "true", "false" or "raise"
\* (an exception leaves the function), mem the store afterwards.
select_item(mem, signal_path, data, ref) ==
    IF invalid_signal(signal_path) THEN [ret |-> "false", mem |-> mem]
    ELSE
    LET child  == signal_path[Len(signal_path)]
        parent == signal_path[Len(signal_path) - 1]
        walk   == Traverse(data, SubSeq(signal_path, 1, Len(signal_path) - 1))
        temp_data == walk.val
    IN  IF walk.raised THEN [ret |-> "raise", mem |-> mem]
        ELSE IF temp_data = EmptyDict THEN [ret |-> "false", mem |-> mem]
        \* a series compared with {} and asked for .get(child): raises
        ELSE IF ~IsDict(temp_data) THEN [ret |-> "raise", mem |-> mem]
        ELSE IF IsDict(GetOr(temp_data, child, EmptyList))
        THEN \* custom items
             LET child_data == Get(temp_data, child)
                 ts == ShiftedCopy(GetOr(child_data, "x", PyNone), ref)
                 m1 == IF Has(mem, parent) THEN mem ELSE Put(mem, parent, EmptyDict)
                 entry == Dict(<< Item("ts", ts.val),
                                  Item("ts_raw", GetOr(child_data, "x", PyNone)),
                                  Item("val", GetOr(child_data, "y", PyNone)) >>)
             IN  IF ts.raised THEN [ret |-> "raise", mem |-> mem]
                 ELSE [ret |-> IF Truthy(parent) THEN "true" ELSE "false",
                       mem |-> Put(m1, parent, Put(Get(m1, parent), child, entry))]
        ELSE IF HasTimeAxis(temp_data)
        THEN \* general TimestampLogfile items
             LET raw == GetOr(temp_data, "TimestampLogfile", PyNone)
                 ts  == ShiftedCopy(raw, ref)
                 m1  == IF Has(mem, parent) THEN mem
                        ELSE Put(mem, parent, Dict(<< Item("ts", ts.val), Item("ts_raw", raw) >>))
             IN  IF ~Has(mem, parent) /\ ts.raised THEN [ret |-> "raise", mem |-> mem]
                 ELSE [ret |-> IF Truthy(parent) THEN "true" ELSE "false",
                       mem |-> Put(m1, parent,
                                   Put(Get(m1, parent), child, GetOr(temp_data, child, EmptyList)))]
        ELSE [ret |-> "false", mem |-> mem]

\* deselect_item(signal_path, backend_memory): ret, the signal name, the store afterwards.
\* backend_memory[parent][child] is read before the try block: a KeyError there leaves
\* the function as an exception.
deselect_item(mem, signal_path) ==
    IF invalid_signal(signal_path) THEN [ret |-> "false", name |-> NoName, mem |-> mem]
    ELSE
    LET child  == signal_path[Len(signal_path)]
        parent == signal_path[Len(signal_path) - 1]
    IN  IF ~Has(mem, parent) \/ ~Has(Get(mem, parent), child)
        THEN [ret |-> "raise", name |-> NoName, mem |-> mem]
        ELSE LET custom_item == IsDict(Get(Get(mem, parent), child))
                 after == IF custom_item THEN Put(mem, parent, Del(Get(mem, parent), child))
                          ELSE IF DictLen(Get(mem, parent)) <= 3 THEN Del(mem, parent)
                          ELSE Put(mem, parent, Del(Get(mem, parent), child))
             IN  [ret |-> "true", name |-> QualifiedName(parent, child), mem |-> after]

is_selected(mem, signal_path) ==
    /\ ~invalid_signal(signal_path)
    /\ Has(mem, signal_path[Len(signal_path) - 1])
    /\ Has(Get(mem, signal_path[Len(signal_path) - 1]), signal_path[Len(signal_path)])

\* The body of "for custom_item in item.values(): custom_item['ts'] = custom_item['ts_raw'] - ref"
\* from the i-th value on. Indexing a series (or a mapping without ts_raw) by "ts_raw"
\* raises; the values before it stay recomputed.
RECURSIVE RecomputeCustom(_, _, _)
RecomputeCustom(item, i, ref) ==
    IF i > DictLen(item) THEN [raised |-> FALSE, val |-> item]
    ELSE LET custom_item == item.d[i].v
         IN  IF ~IsDict(custom_item) \/ ~Has(custom_item, "ts_raw")
                \/ Get(custom_item, "ts_raw").tag # "arr"
             THEN [raised |-> TRUE, val |-> item]
             ELSE RecomputeCustom(
                      Put(item, item.d[i].k,
                          Put(custom_item, "ts", Arr(ArrMinus(Get(custom_item, "ts_raw").a, ref)))),
                      i + 1, ref)

\* a pass that moves ts_raw along with ts
RecomputeItem_ShiftRaw(item, ref) ==
    IF Has(item, "ts_raw") /\ Get(item, "ts_raw").tag = "arr"
    THEN [raised |-> FALSE,
          val |-> Put(Put(item, "ts", Arr(ArrMinus(Get(item, "ts_raw").a, ref))),
                      "ts_raw", Arr(ArrMinus(Get(item, "ts_raw").a, ref)))]
    ELSE RecomputeCustom(item, 1, ref)

\* One pass of the loop body of update_global_ts_ref over a parent entry.
\* custom_dict looks at the first value of the entry only.
RecomputeItem(item, ref) ==
    LET custom_dict == DictLen(item) > 0 /\ IsDict(item.d[1].v)
    IN  IF custom_dict THEN RecomputeCustom(item, 1, ref)
        ELSE IF Has(item, "ts_raw")
        THEN IF Get(item, "ts_raw").tag = "arr"
             THEN [raised |-> FALSE,
                   val |-> Put(item, "ts", Arr(ArrMinus(Get(item, "ts_raw").a, ref)))]
             ELSE [raised |-> TRUE, val |-> item]
        ELSE [raised |-> FALSE, val |-> item]

\* "for item in backend_memory.values()" from the i-th parent entry on.
RECURSIVE RecomputeStore(_, _, _)
RecomputeStore(mem, i, ref) ==
    IF i > DictLen(mem) THEN [raised |-> FALSE, val |-> mem]
    ELSE LET r == RecomputeItem(mem.d[i].v, ref)
         IN  IF r.raised THEN [raised |-> TRUE, val |-> Put(mem, mem.d[i].k, r.val)]
             ELSE RecomputeStore(Put(mem, mem.d[i].k, r.val), i + 1, ref)

\* the comparison of the new reference with the current one, left out
SameRef_Never(ref, ts) == FALSE

\* "if self.global_ts_ref == ts" (None equals no float)
SameRef(ref, ts) == ref = ts

\* update_global_ts_ref(ts) with the slots its signals run:
\*   ret  "true" / "false" / "raise", ref the new global_ts_ref, sig / di the stores,
\*   bar  whether signal_update_ts_bar_placeholder was emitted.
update_global_ts_ref(x, ref, mat, data, sig, di) ==
    LET ts   == ToFloat(x)
        same == [ret |-> "false", ref |-> ref, sig |-> sig, di |-> di, bar |-> FALSE]
    IN  IF ~ts.some THEN same
        ELSE IF SameRef(ref, ts) THEN same
        ELSE IF ~is_mat_loaded(mat, data) THEN same
        ELSE IF sig = EmptyDict /\ di = EmptyDict
        THEN [ret |-> "false", ref |-> ts, sig |-> sig, di |-> di, bar |-> TRUE]
        ELSE LET s1 == RecomputeStore(sig, 1, ts.v)
                 s2 == RecomputeStore(di, 1, ts.v)
             IN  IF s1.raised
                 THEN [ret |-> "raise", ref |-> ts, sig |-> s1.val, di |-> di, bar |-> FALSE]
                 ELSE [ret |-> IF s2.raised THEN "raise" ELSE "true",
                       ref |-> ts, sig |-> s1.val, di |-> s2.val, bar |-> FALSE]

\* reset_global_ts_ref(): update_global_ts_ref(self.loaded_ts_ref)
reset_global_ts_ref(loaded_ref, ref, mat, data, sig, di) ==
    update_global_ts_ref(AsInput(loaded_ref), ref, mat, data, sig, di)

\* the reference looked up under the key of the shifted series
TimeKeys_Ts == {"ts"}

\* ["TimestampLogfile"], the keys set_and_load_mat derives loaded_ts_ref from
TimeKeys == {"TimestampLogfile"}

\* get_signal_data that reads the time axis of a custom child at parent level
SeriesOf_Parent(entry, child) ==
    [ts |-> GetOr(entry, "ts", PyNone), val |-> Get(entry, child), missing |-> ~Has(entry, "ts")]

\* The (ts, val) get_signal_data reads for a child of a store entry: a custom child's
\* own ts and val, else the parent-level ts and the child's series. missing: the
\* subscript ["ts"] / ["val"] finds no such key (KeyError).
SeriesOf(entry, child) ==
    IF IsDict(Get(entry, child))
    THEN [ts  |-> GetOr(Get(entry, child), "ts", PyNone),
          val |-> GetOr(Get(entry, child), "val", PyNone),
          missing |-> ~Has(Get(entry, child), "ts") \/ ~Has(Get(entry, child), "val")]
    ELSE [ts |-> GetOr(entry, "ts", PyNone), val |-> Get(entry, child),
          missing |-> ~Has(entry, "ts")]

\* get_signal_data(item_path) on selected_signals_data: ret "ok" with (ts, val, name),
\* or "raise".
get_signal_data(sig, item_path) ==
    LET empty == [ret |-> "ok", ts |-> EmptyList, val |-> EmptyList, name |-> NoName]
    IN  IF invalid_signal(item_path) THEN empty
        ELSE LET child  == item_path[Len(item_path)]
                 parent == item_path[Len(item_path) - 1]
             IN  IF ~Has(sig, parent) THEN empty
                 ELSE IF ~Has(Get(sig, parent), child) THEN empty
                 ELSE LET r == SeriesOf(Get(sig, parent), child)
                      IN  IF r.missing THEN [empty EXCEPT !.ret = "raise"]
                          ELSE [ret |-> "ok", ts |-> r.ts, val |-> r.val,
                                name |-> QualifiedName(parent, child)]

\* dict.update(other): other's items put one after the other
RECURSIVE PutAll(_, _)
PutAll(x, items) ==
    IF items = <<>> THEN x
    ELSE PutAll(Put(x, Head(items).k, Head(items).v), Tail(items))

\* The loop of add_custom_data_points over custom_data_points.items(): a function
\* already in the group has its {x, y} updated, a new one is added.
RECURSIVE AddToGroup(_, _)
AddToGroup(group, items) ==
    IF items = <<>> THEN group
    ELSE LET key == Head(items).k
             val == Head(items).v
         IN  AddToGroup(IF Has(group, key)
                        THEN Put(group, key, PutAll(Get(group, key), val.d))
                        ELSE Put(group, key, val),
                        Tail(items))

\* the group replaced by what the script returned
add_custom_data_points_Replace(custom_data_points, data, parent_key) ==
    IF custom_data_points = EmptyDict THEN data
    ELSE Put(data, parent_key, custom_data_points)

\* add_custom_data_points(path, parent_key): loaded_data afterwards, for the
\* custom_data_points that import_custom_data_points returned.
add_custom_data_points(custom_data_points, data, parent_key) ==
    IF custom_data_points = EmptyDict THEN data
    ELSE IF ~Has(data, parent_key) THEN Put(data, parent_key, custom_data_points)
    ELSE Put(data, parent_key, AddToGroup(Get(data, parent_key), custom_data_points.d))

\* The signal_data_addition emissions of add_custom_data_points(path, parent_key):
\* none for an empty custom_data_points, else one, (parent_key, the function names),
\* on either way out.
signal_data_addition(custom_data_points, parent_key) ==
    IF custom_data_points = EmptyDict THEN <<>>
    ELSE << [parent_key |-> parent_key, child_keys |-> KeyList(custom_data_points)] >>

\* parse_and_load_conf(path), given what parse_conf returned: the loop
\* "for item_path in parsed_conf_data" runs over the pair (parsed_data, secondary_data),
\* so each item_path is a list of token lists. With fewer than two token lists it is
\* an invalid signal and nothing is selected; with two or more, item_path[-2] is a
\* list, and "parent in self.selected_signals_data" raises TypeError (unhashable).
\* No store is touched either way.
parse_and_load_conf(parsed) ==
    IF \E i \in 1..2 : ~invalid_signal(<<parsed.parsed_data, parsed.secondary_data>>[i])
    THEN "raise" ELSE "none"

\* search_timer.start(200): the delay in ms
FilterDelay == 200

\* QTimer.stop()
timer_stop(timer) == [timer EXCEPT !.pending = <<>>]

\* QTimer.start(msec): starts the timer, or stops and restarts it when it is running
timer_start(timer, msec) == [pending |-> <<msec>>, interval |-> msec]

\* a repeating timer
SingleShot_Off == FALSE

\* search_timer.setSingleShot(True)
SingleShot == TRUE

\* The timer after its i-th scheduled timeout has fired.
timer_fired(timer, i) ==
    [timer EXCEPT !.pending =
        IF SingleShot THEN SubSeq(@, 1, i - 1) \o SubSeq(@, i + 1, Len(@))
        ELSE [@ EXCEPT ![i] = timer.interval]]

\* a fresh single-shot timeout per call, none cancelled
set_filter_text_Stacked(timer, text) ==
    [timer |-> [pending |-> Append(timer.pending, FilterDelay), interval |-> FilterDelay],
     text  |-> text]

\* set_filter_text(text): the timer and latest_search_text afterwards
set_filter_text(timer, text) ==
    [timer |-> timer_start(timer_stop(timer), FilterDelay), text |-> text]

\* str.replace("*", ".*")
RECURSIVE ReplaceStar(_)
ReplaceStar(str) ==
    IF str = <<>> THEN <<>>
    ELSE (IF Head(str) = "*" THEN <<".", "*">> ELSE <<Head(str)>>) \o ReplaceStar(Tail(str))

\* apply_filter(): the pattern handed to the proxy model (case-insensitive)
apply_filter(text) == ReplaceStar(text)

\* One pattern character against one subject character: "." is any character,
\* every other one is itself, whatever the case.
AtomMatches(p, ch) == p = "." \/ Fold(p) = Fold(ch)

\* The pattern matches at the start of the subject. The patterns are those
\* apply_filter builds from letters and "*": characters, "." and "x*" (x repeated
\* any number of times).
RECURSIVE MatchesHere(_, _)
MatchesHere(pattern, subject) ==
    IF pattern = <<>> THEN TRUE
    ELSE IF Len(pattern) >= 2 /\ pattern[2] = "*"
    THEN \E n \in 0..Len(subject) :
            /\ \A i \in 1..n : AtomMatches(pattern[1], subject[i])
            /\ MatchesHere(SubSeq(pattern, 3, Len(pattern)), SubSeq(subject, n + 1, Len(subject)))
    ELSE /\ subject # <<>>
         /\ AtomMatches(pattern[1], subject[1])
         /\ MatchesHere(Tail(pattern), Tail(subject))

\* filterRegularExpression().match(subject).hasMatch(): the pattern matches somewhere
\* in the subject
hasMatch(pattern, subject) ==
    \E i \in 1..(Len(subject) + 1) : MatchesHere(pattern, SubSeq(subject, i, Len(subject)))

\* the children alone looked at, not what is below them
AcceptLoop_Children(model, regex, stack) ==
    \E i \in 1..Len(stack) : hasMatch(regex, Spelling(model.items[stack[i]].text))

\* "while stack: current_index = stack.pop(); ..." of filterAcceptsRow
RECURSIVE AcceptLoop(_, _, _)
AcceptLoop(model, regex, stack) ==
    IF stack = <<>> THEN FALSE
    ELSE LET current_index == stack[Len(stack)]
         IN  IF hasMatch(regex, Spelling(model.items[current_index].text)) THEN TRUE
             ELSE AcceptLoop(model, regex,
                             SubSeq(stack, 1, Len(stack) - 1) \o RowsOf(model, current_index))

\* CustomFilterProxyModel.filterAcceptsRow(source_row, source_parent) with the
\* source model and the filter pattern given
filterAcceptsRow(model, regex, source_row, source_parent) ==
    LET rows == RowsOf(model, source_parent)
    IN  IF source_row \notin 1..Len(rows) THEN FALSE
        ELSE \/ hasMatch(regex, Spelling(model.items[rows[source_row]].text))
             \/ AcceptLoop(model, regex, RowsOf(model, rows[source_row]))

\* get_current_ts_placeholder_text(): f"Reference ts: {global_ts_ref}"
PlaceholderText(ref) == [initial |-> FALSE, ref |-> ref]

\* The text the bar is created with: "Reference timestamp".
InitialPlaceholder == [initial |-> TRUE, ref |-> NoFloat]

-----------------------------------------------------------------------------
(* The state machine                                                       *)

NoPath == <<>>

\* QTimer(): not running. pending holds the time left, in ms, of each timeout the
\* timer has scheduled; interval is the interval it was last started with.
TimerIdle == [pending |-> <<>>, interval |-> 0]

\* "" as its characters
NoText == <<>>

\* Nothing was typed into the search field yet. calls counts the calls of
\* set_filter_text; text is the argument of the latest one, applied the runs of
\* apply_filter since, waited the time passed since (up to the delay).
NothingTyped == [calls |-> 0, applied |-> 0, waited |-> 0, text |-> NoText]

\* No QuadModel utility is being called.
NoCall == [op |-> "none"]

\* ret is "true", "false", "raise" (an exception left the call) or "none" (no result).
Call(op, path, ret) == [op |-> op, path |-> path, ret |-> ret]

-----------------------------------------------------------------------------
(* Colormap. A colour is its place in the palette, 1..PaletteSize; the      *)
(* deque available_colors is a sequence with its left end first;            *)
(* colors_in_use_by_item gives each item its colour, 0 for an item that is  *)
(* not in the mapping.                                                      *)

\* tuple(self.COLORMAPS[colormap_name])
all_colors == [i \in 1..PaletteSize |-> i]

\* The items that ask for a colour: two more than the palette has colours.
ItemIds == 1..(PaletteSize + 2)


\* len(self.colors_in_use_by_item)
InUse(c) == {item_id \in ItemIds : c.colors_in_use_by_item[item_id] # 0}

\* Colormap.__init__ and Colormap.reset
Colormap_reset ==
    [available_colors |-> all_colors,
     colors_in_use_by_item |-> [item_id \in ItemIds |-> 0]]

\* get_color(item_id): the Colormap afterwards and the colour returned
get_color(c, item_id) ==
    IF c.colors_in_use_by_item[item_id] # 0
    THEN [cm |-> c, color |-> c.colors_in_use_by_item[item_id]]
    ELSE LET color == IF c.available_colors # <<>> THEN Head(c.available_colors)
                      ELSE all_colors[(Cardinality(InUse(c)) % Len(all_colors)) + 1]
             rest  == IF c.available_colors # <<>> THEN Tail(c.available_colors)
                      ELSE c.available_colors
         IN  [cm |-> [available_colors |-> rest,
                      colors_in_use_by_item |->
                          [c.colors_in_use_by_item EXCEPT ![item_id] = color]],
              color |-> color]

\* release_color(item_id)
release_color(c, item_id) ==
    IF c.colors_in_use_by_item[item_id] = 0 THEN c
    ELSE [available_colors |-> <<c.colors_in_use_by_item[item_id]>> \o c.available_colors,
          colors_in_use_by_item |-> [c.colors_in_use_by_item EXCEPT ![item_id] = 0]]

\* QuadView.__init__: self.cm = Colormap("fof20")
InitColormap == cm = Colormap_reset

\* QuadViewModel.__init__
InitViewModel ==
    /\ loaded_data = EmptyDict
    /\ mat_set = FALSE
    /\ selected_signals_data = EmptyDict
    /\ selected_di_only_data = EmptyDict
    /\ global_ts_ref = NoFloat
    /\ loaded_ts_ref = NoFloat
    /\ placeholder = InitialPlaceholder
    /\ last = Call("init", NoPath, "none")
    /\ search_timer = TimerIdle
    /\ latest_search_text = NoText
    /\ filter_regex = NoText
    /\ filter_log = NothingTyped

Init ==
    /\ InitViewModel
    /\ InitColormap
    /\ arg = NoCall
    /\ out = NoCall

Store(store) == IF store = "signals" THEN selected_signals_data ELSE selected_di_only_data

\* select_item(path, backend_memory = store)
Select(path, store) ==
    LET r == select_item(Store(store), path, loaded_data, global_ts_ref)
    IN  /\ selected_signals_data' = IF store = "signals" THEN r.mem ELSE selected_signals_data
        /\ selected_di_only_data' = IF store = "di" THEN r.mem ELSE selected_di_only_data
        /\ last' = Call("select", path, r.ret)
        /\ UNCHANGED <<loaded_data, mat_set, global_ts_ref, loaded_ts_ref, placeholder>>
        /\ UNCHANGED <<filterVars, utilVars, cm>>

\* deselect_item(path, backend_memory = store)
Deselect(path, store) ==
    LET r == deselect_item(Store(store), path)
    IN  /\ selected_signals_data' = IF store = "signals" THEN r.mem ELSE selected_signals_data
        /\ selected_di_only_data' = IF store = "di" THEN r.mem ELSE selected_di_only_data
        /\ last' = Call("deselect", path, r.ret)
        /\ UNCHANGED <<loaded_data, mat_set, global_ts_ref, loaded_ts_ref, placeholder>>
        /\ UNCHANGED <<filterVars, utilVars, cm>>

\* What QuadView shows after a call of update_global_ts_ref: the slot of
\* signal_update_ts_bar_placeholder, and the refresh the caller does on True.
BarAfter(r) == IF r.bar \/ r.ret = "true" THEN PlaceholderText(r.ref) ELSE placeholder

\* QuadView.on_global_ts_ref_submit(x) -> update_global_ts_ref(x)
UpdateGlobalTsRef(x) ==
    LET r == update_global_ts_ref(x, global_ts_ref, mat_set, loaded_data,
                                  selected_signals_data, selected_di_only_data)
    IN  /\ global_ts_ref' = r.ref
        /\ selected_signals_data' = r.sig
        /\ selected_di_only_data' = r.di
        /\ placeholder' = BarAfter(r)
        /\ last' = Call("update", NoPath, r.ret)
        /\ UNCHANGED <<loaded_data, mat_set, loaded_ts_ref>>
        /\ UNCHANGED <<filterVars, utilVars, cm>>

\* QuadView.reset_global_ts_ref() -> QuadViewModel.reset_global_ts_ref()
ResetGlobalTsRef ==
    LET r == reset_global_ts_ref(loaded_ts_ref, global_ts_ref, mat_set, loaded_data,
                                 selected_signals_data, selected_di_only_data)
    IN  /\ global_ts_ref' = r.ref
        /\ selected_signals_data' = r.sig
        /\ selected_di_only_data' = r.di
        /\ placeholder' = BarAfter(r)
        /\ last' = Call("reset", NoPath, r.ret)
        /\ UNCHANGED <<loaded_data, mat_set, loaded_ts_ref>>
        /\ UNCHANGED <<filterVars, utilVars, cm>>

\* QuadView.reset_ui_workspace(): the stores and the bar after it
reset_ui_workspace(mat, data, ref, sig, di, bar) ==
    IF is_mat_loaded(mat, data)
    THEN [sig |-> EmptyDict, di |-> EmptyDict, bar |-> PlaceholderText(ref)]
    ELSE [sig |-> sig, di |-> di, bar |-> bar]

\* set_and_load_mat(path) for a file with the given suffix that decodes to data,
\* with the slot of signal_new_data_loaded (QuadView.on_data_file_load).
\* last.path holds the suffix of the file path.
SetAndLoadMat(suffix, data) ==
    /\ IF suffix = ".mat"
       THEN LET ref == min_dict_value(data, TimeKeys)
                w   == reset_ui_workspace(TRUE, data, ref, selected_signals_data,
                                          selected_di_only_data, placeholder)
            IN  /\ mat_set' = TRUE
                /\ loaded_data' = data
                /\ loaded_ts_ref' = ref
                /\ global_ts_ref' = ref
                /\ selected_signals_data' = w.sig
                /\ selected_di_only_data' = w.di
                /\ placeholder' = w.bar
       ELSE UNCHANGED <<loaded_data, mat_set, selected_signals_data, selected_di_only_data,
                        global_ts_ref, loaded_ts_ref, placeholder>>
    /\ last' = Call("load", <<suffix>>, "none")
    /\ UNCHANGED <<filterVars, utilVars, cm>>

\* The "clear all plots" button: QuadView.reset_ui_workspace()
ClearPlots ==
    LET w == reset_ui_workspace(mat_set, loaded_data, global_ts_ref, selected_signals_data,
                                selected_di_only_data, placeholder)
    IN  /\ selected_signals_data' = w.sig
        /\ selected_di_only_data' = w.di
        /\ placeholder' = w.bar
        /\ last' = Call("clear", NoPath, "none")
        /\ UNCHANGED <<loaded_data, mat_set, global_ts_ref, loaded_ts_ref>>
        /\ UNCHANGED <<filterVars, utilVars, cm>>

Next ==
    \/ \E path \in Paths, store \in Stores : Select(path, store)
    \/ \E path \in Paths, store \in Stores : Deselect(path, store)
    \/ \E x \in RefInputs : UpdateGlobalTsRef(x)
    \/ ResetGlobalTsRef
    \/ \E suffix \in Suffixes, data \in Datasets : SetAndLoadMat(suffix, data)
    \/ ClearPlots

Spec == Init /\ [][Next]_vars

-----------------------------------------------------------------------------
(* A session with files dropped on the window: the operations above on a   *)
(* few paths, custom data points from a script, .conf files, and the plot  *)
(* reading a signal back.                                                  *)

\* {"Radar": {"Range": [10,11,12], "TimestampLogfile": [5,2,9]},
\*  "Lidar": {"TimestampLogfile": [3,8]}} : time axes that do not start at their minimum
DataShuffled ==
    Dict(<< Item("Radar", Dict(<< Item("Range", Arr(<<10, 11, 12>>)),
                                  Item("TimestampLogfile", Arr(<<5, 2, 9>>)) >>)),
            Item("Lidar", Dict(<< Item("TimestampLogfile", Arr(<<3, 8>>)) >>)) >>)

SessionDatasets == {DataRadar, DataShuffled, EmptyDict}

\* What import_custom_data_points returns: nothing usable, or one function P
\* with its x and y.
CustomP == Dict(<< Item("P", Dict(<< Item("x", Arr(<<1, 3>>)), Item("y", Arr(<<4, 5>>)) >>)) >>)
CustomPoints == {EmptyDict, CustomP}

\* Further results of import_custom_data_points: P with other values, Q, both.
CustomP2 == Dict(<< Item("P", Dict(<< Item("x", Arr(<<2>>)), Item("y", Arr(<<6>>)) >>)) >>)
CustomQ  == Dict(<< Item("Q", Dict(<< Item("x", Arr(<<1, 3>>)), Item("y", Arr(<<4, 5>>)) >>)) >>)
CustomPQ == Dict(<< Item("P", Dict(<< Item("x", Arr(<<2>>)), Item("y", Arr(<<6>>)) >>)),
                    Item("Q", Dict(<< Item("x", Arr(<<1, 3>>)), Item("y", Arr(<<4, 5>>)) >>)) >>)
LoaderResults == {EmptyDict, CustomP, CustomP2, CustomQ, CustomPQ}

\* parent_key of add_custom_data_points: its default, and the name of a group of
\* the recording.
GroupKeys == {"CustomItems", "Radar"}

SessionPaths == { <<"Radar">>, <<"Radar", "Range">>, <<"Radar", "Sub">>, <<"CustomItems", "P">> }

\* .conf files: "a;b", and "a;b" followed by "c;d"
ConfFiles == { << <<"a", ";", "b">> >>,
               << <<"a", ";", "b">>, <<"c", ";", "d">> >> }

\* handle_dropped_files with a .py file -> add_custom_data_points(pyfile)
AddCustomDataPoints(points) ==
    /\ loaded_data' = add_custom_data_points(points, loaded_data, "CustomItems")
    /\ last' = Call("custom", NoPath, "none")
    /\ UNCHANGED <<mat_set, selected_signals_data, selected_di_only_data,
                   global_ts_ref, loaded_ts_ref, placeholder>>
    /\ UNCHANGED <<filterVars, utilVars, cm>>

\* QuadView.parse_and_load_conf(path) -> QuadViewModel.parse_and_load_conf(path)
ParseAndLoadConf(rows) ==
    /\ last' = Call("conf", NoPath, parse_and_load_conf(parse_conf(".conf", rows, ";", "/")))
    /\ UNCHANGED <<loaded_data, mat_set, selected_signals_data, selected_di_only_data,
                   global_ts_ref, loaded_ts_ref, placeholder>>
    /\ UNCHANGED <<filterVars, utilVars, cm>>

\* QuadView.update_all_plots / add_signal -> get_signal_data(path)
GetSignalData(path) ==
    /\ last' = Call("get", path, get_signal_data(selected_signals_data, path).ret)
    /\ UNCHANGED <<loaded_data, mat_set, selected_signals_data, selected_di_only_data,
                   global_ts_ref, loaded_ts_ref, placeholder>>
    /\ UNCHANGED <<filterVars, utilVars, cm>>

\* The session selects for plotting: select_item / deselect_item with their default
\* backend_memory, selected_signals_data.
PlotStore == {"signals"}

NextSession ==
    \/ \E path \in SessionPaths, store \in PlotStore : Select(path, store)
    \/ \E path \in SessionPaths, store \in PlotStore : Deselect(path, store)
    \/ \E x \in RefInputs : UpdateGlobalTsRef(x)
    \/ ResetGlobalTsRef
    \/ \E suffix \in Suffixes, data \in SessionDatasets : SetAndLoadMat(suffix, data)
    \/ ClearPlots
    \/ \E points \in CustomPoints : AddCustomDataPoints(points)
    \/ \E rows \in ConfFiles : ParseAndLoadConf(rows)
    \/ \E path \in SessionPaths : GetSignalData(path)

SpecSession == Init /\ [][NextSession]_vars

-----------------------------------------------------------------------------
(* The search field: set_filter_text on every change of the text, the      *)
(* single-shot search_timer, apply_filter on its timeout.                  *)

\* What is typed: nothing, "a", "a*", "*b".
FilterTexts == { <<>>, <<"a">>, <<"a", "*">>, <<"*", "b">> }

\* The time that passes in one step.
TickMs == FilterDelay \div Ticks

\* QuadView.on_search_text_changed(text) -> set_filter_text(text)
SetFilterText(text) ==
    LET r == set_filter_text(search_timer, text)
    IN  /\ filter_log.calls < MaxCalls
        /\ search_timer' = r.timer
        /\ latest_search_text' = r.text
        /\ filter_log' = [calls |-> filter_log.calls + 1, applied |-> 0, waited |-> 0,
                          text |-> text]
        /\ UNCHANGED <<filter_regex, vmVars, utilVars, cm>>

\* Time passes while a timeout is scheduled and not yet due.
Tick ==
    /\ \E i \in 1..Len(search_timer.pending) : search_timer.pending[i] > 0
    /\ search_timer' = [search_timer EXCEPT !.pending =
                            [i \in 1..Len(@) |-> IF @[i] > TickMs THEN @[i] - TickMs ELSE 0]]
    /\ filter_log' = [filter_log EXCEPT !.waited =
                          IF @ + TickMs > FilterDelay THEN FilterDelay ELSE @ + TickMs]
    /\ UNCHANGED <<latest_search_text, filter_regex, vmVars, utilVars, cm>>

\* A due timeout is delivered by the event loop: search_timer.timeout -> apply_filter()
Timeout ==
    \E i \in 1..Len(search_timer.pending) :
        /\ search_timer.pending[i] = 0
        /\ search_timer' = timer_fired(search_timer, i)
        /\ filter_regex' = apply_filter(latest_search_text)
        /\ filter_log' = [filter_log EXCEPT !.applied = IF @ < 2 THEN @ + 1 ELSE 2]
        /\ UNCHANGED <<latest_search_text, vmVars, utilVars, cm>>

NextFilter ==
    \/ \E text \in FilterTexts : SetFilterText(text)
    \/ Tick
    \/ Timeout

SpecFilter == Init /\ [][NextFilter]_vars

\* The event loop runs: time passes and a due timeout is delivered.
FairSpecFilter == SpecFilter /\ WF_vars(Tick) /\ WF_vars(Timeout)

-----------------------------------------------------------------------------
(* The utilities of QuadModel, each called once on arguments drawn from a  *)
(* set of inputs.                                                          *)

\* Nested mappings for merge_dicts: under g a number, a series, or a mapping up to
\* two levels deep; h is a second key.
MergeInner == { Dict(<< Item("y", Num(1)) >>), Dict(<< Item("z", Num(2)) >>) }
MergeMid == {EmptyDict}
            \cup {Dict(<< Item("x", v) >>) : v \in {Num(1), Arr(<<2, 3>>)} \cup MergeInner}
MergeVals == {Num(5), Arr(<<2, 3>>)} \cup MergeMid
MergeInputs == {EmptyDict}
               \cup {Dict(<< Item("g", v) >>) : v \in MergeVals}
               \cup {Dict(<< Item("h", Num(9)), Item("g", v) >>) : v \in MergeVals}

\* merge_dicts(A, B) is about to be called: A and B built as objects on a heap.
MergeCall(A, B) ==
    LET a == Alloc(<<>>, A)
        b == Alloc(a.heap, B)
    IN  [op |-> "merge", heap |-> b.heap, a |-> a.id, b |-> b.id]

InitMerge ==
    /\ InitViewModel
    /\ InitColormap
    /\ arg \in {MergeCall(A, B) : A \in MergeInputs, B \in MergeInputs}
    /\ out = NoCall

\* the call runs
MergeDicts ==
    /\ arg.op = "merge" /\ out = NoCall
    /\ out' = [op |-> "merge"] @@ merge_dicts(arg.heap, arg.a, arg.b)
    /\ UNCHANGED <<arg, cm, vmVars, filterVars>>

NextMerge == MergeDicts

SpecMerge == InitMerge /\ [][NextMerge]_vars

\* Values for min_dict_value: series (one empty, two not starting at their minimum),
\* a number, texts, None; mappings holding one of them under a searched or another
\* key; sequences holding such mappings.
MinLeaves == { Arr(<<5, 2, 9>>), Arr(<<1, 8>>), Arr(<<>>), Num(4), Str(1), Str(2), PyNone }
MinInner == {Dict(<< Item("TimestampLogfile", l) >>) : l \in {Arr(<<5, 2, 9>>), Arr(<<1, 8>>), Num(0), Str(1)}}
            \cup {Dict(<< Item("v", Num(3)) >>), EmptyDict}
MinNested == {Dict(<< Item("C", m) >>) : m \in MinInner}
MinLists == {List(<<>>)} \cup {List(<< m >>) : m \in MinInner}
            \cup {List(<< Num(7), m >>) : m \in MinInner}
MinVals == MinLeaves \cup MinInner \cup MinNested \cup MinLists
MinInputs == {Dict(<< Item("A", v), Item(k, w) >>) :
                 v \in MinVals, w \in MinVals, k \in {"B", "TimestampLogfile"}}
MinKeys == { {"TimestampLogfile"}, {"TimestampLogfile", "v"} }

InitMin ==
    /\ InitViewModel
    /\ InitColormap
    /\ arg \in {[op |-> "min", data |-> data, keys |-> keys] : data \in MinInputs, keys \in MinKeys}
    /\ out = NoCall

\* the call runs
MinDictValue ==
    /\ arg.op = "min" /\ out = NoCall
    /\ out' = [op |-> "min", ret |-> min_dict_value(arg.data, arg.keys)]
    /\ UNCHANGED <<arg, cm, vmVars, filterVars>>

NextMin == MinDictValue

SpecMin == InitMin /\ [][NextMin]_vars

\* The characters of a .conf line: a letter, a blank, the two separators, the
\* comment marker.
ConfChars == {"a", " ", ";", "/", "#"}

\* All lines of up to MaxRowLen characters.
ConfRows == UNION {[1..n -> ConfChars] : n \in 0..MaxRowLen}

\* Lines that go before and after the free line: "a;b", "b/a", "#a", " ".
FixedRows == { <<"a", ";", "b">>, <<"b", "/", "a">>, <<"#", "a">>, <<" ">> }

\* Files of one to three lines, one of them free.
ConfInputs == {<<r>> : r \in ConfRows}
              \cup {<<f, r>> : f \in FixedRows, r \in ConfRows}
              \cup {<<r, f>> : f \in FixedRows, r \in ConfRows}
              \cup {<<f, r, g>> : f \in FixedRows, r \in ConfRows, g \in FixedRows}

ConfSuffixes == {".conf", ".txt"}

InitConf ==
    /\ InitViewModel
    /\ InitColormap
    /\ arg \in {[op |-> "conf", suffix |-> suffix, rows |-> rows] :
                    suffix \in ConfSuffixes, rows \in ConfInputs}
    /\ out = NoCall

\* the call runs: parse_conf(path) with the default separators
ParseConf ==
    /\ arg.op = "conf" /\ out = NoCall
    /\ out' = [op |-> "conf"] @@ parse_conf(arg.suffix, arg.rows, ";", "/")
    /\ UNCHANGED <<arg, cm, vmVars, filterVars>>

NextConf == ParseConf

SpecConf == InitConf /\ [][NextConf]_vars

\* What a function of a script returns: None, a pair of series, a pair of numbers,
\* a pair with an empty x, with an empty y, with an empty x and None, with None and a
\* series, three series, a list of two series.
ReturnValues ==
    { PyNone,
      Tuple(<< Arr(<<1, 3>>), Arr(<<4, 5>>) >>),
      Tuple(<< Num(2), Num(6) >>),
      Tuple(<< Arr(<<>>), Arr(<<4>>) >>),
      Tuple(<< Arr(<<1>>), Arr(<<>>) >>),
      Tuple(<< Arr(<<>>), PyNone >>),
      Tuple(<< PyNone, Arr(<<4>>) >>),
      Tuple(<< Arr(<<1>>), Arr(<<2>>), Arr(<<3>>) >>),
      List(<< Arr(<<1>>), Arr(<<2>>) >>) }

\* What a function does: it returns one of the values; it raises, before or after
\* writing into its argument; it writes and returns a pair; it returns what it reads
\* from its argument.
Behaviours ==
    {[write |-> "none", returns |-> "value", value |-> v] : v \in ReturnValues}
    \cup { [write |-> "none",   returns |-> "raise", value |-> PyNone],
           [write |-> "nested", returns |-> "raise", value |-> PyNone],
           [write |-> "nested", returns |-> "value", value |-> Tuple(<< Arr(<<1, 3>>), Arr(<<4, 5>>) >>)],
           [write |-> "clear",  returns |-> "value", value |-> Tuple(<< Num(2), Num(6) >>)],
           [write |-> "none",   returns |-> "read",  value |-> PyNone],
           [write |-> "nested", returns |-> "read",  value |-> PyNone] }

\* The behaviours that scripts of more than two functions are put together from.
CoreBehaviours ==
    { [write |-> "none",   returns |-> "value", value |-> Tuple(<< Arr(<<1, 3>>), Arr(<<4, 5>>) >>)],
      [write |-> "none",   returns |-> "value", value |-> Tuple(<< Arr(<<>>), Arr(<<4>>) >>)],
      [write |-> "none",   returns |-> "raise", value |-> PyNone],
      [write |-> "nested", returns |-> "value", value |-> Tuple(<< Num(2), Num(6) >>)],
      [write |-> "none",   returns |-> "read",  value |-> PyNone] }

\* The names of the functions, as dir(module) orders them.
FuncNames == <<"f", "g", "h", "k", "m">>

\* The candidates of a script of n functions with the behaviours bs[1..n].
ScriptOf(bs) ==
    [i \in 1..Len(bs) |-> Func(FuncNames[i], bs[i].write, bs[i].returns, bs[i].value)]

Scripts == {ScriptOf(bs) : bs \in UNION {[1..n -> Behaviours] : n \in 1..2}}
           \cup {ScriptOf(bs) : bs \in UNION {[1..n -> CoreBehaviours] : n \in 3..MaxFuncs}}

\* import_custom_data_points(script, data) is about to be called: data built as
\* objects on a heap.
ImportCall(data, script) ==
    LET a == Alloc(<<>>, data)
    IN  [op |-> "import", heap |-> a.heap, data |-> a.id, script |-> script]

InitImport ==
    /\ InitViewModel
    /\ InitColormap
    /\ arg \in {ImportCall(data, script) : data \in Datasets, script \in Scripts}
    /\ out = NoCall

\* the call runs
ImportCustomDataPoints ==
    /\ arg.op = "import" /\ out = NoCall
    /\ out' = [op |-> "import"] @@ import_custom_data_points(arg.heap, arg.data, arg.script)
    /\ UNCHANGED <<arg, cm, vmVars, filterVars>>

NextImport == ImportCustomDataPoints

SpecImport == InitImport /\ [][NextImport]_vars

\* Datasets for the tree menu, with short names:
\* {"Ab": {"b": [1], "C": {"ab": [2], "Ba": [3]}}, "ba": {"a": [1]}, "c": [4]}
TreeA ==
    Dict(<< Item("Ab", Dict(<< Item("b", Arr(<<1>>)),
                               Item("C", Dict(<< Item("ab", Arr(<<2>>)),
                                                 Item("Ba", Arr(<<3>>)) >>)) >>)),
            Item("ba", Dict(<< Item("a", Arr(<<1>>)) >>)),
            Item("c", Arr(<<4>>)) >>)

\* {"a": {"a": {"a": [1]}}, "B": {}, "ab": [2]} : a name repeated down a branch, a
\* group without fields
TreeB ==
    Dict(<< Item("a", Dict(<< Item("a", Dict(<< Item("a", Arr(<<1>>)) >>)) >>)),
            Item("B", EmptyDict),
            Item("ab", Arr(<<2>>)) >>)

\* {"C": {"b": [2], "c": [1]}, "c": {"C": [2]}} : names that differ in case only
TreeC ==
    Dict(<< Item("C", Dict(<< Item("b", Arr(<<2>>)), Item("c", Arr(<<1>>)) >>)),
            Item("c", Dict(<< Item("C", Arr(<<2>>)) >>)) >>)

TreeDatasets == {TreeA, TreeB, TreeC, EmptyDict}

\* What is typed into the search field of the tree menu.
TreeFilterTexts == { <<>>, <<"a">>, <<"B">>, <<"a", "b">>, <<"a", "*", "b">>,
                     <<"*", "c">>, <<"b", "*", "a">>, <<"a", "a">> }

InitTree ==
    /\ InitViewModel
    /\ InitColormap
    /\ arg \in {[op |-> "tree", data |-> data] : data \in TreeDatasets}
    /\ out = NoCall

\* update_tree_model(): the tree model generated from the data becomes the source
\* model of the proxy model
UpdateTreeModel ==
    /\ arg.op = "tree" /\ out = NoCall
    /\ out' = [op |-> "tree", model |-> generate_tree_model(arg.data)]
    /\ UNCHANGED <<arg, cm, vmVars, filterVars>>

NextTree ==
    \/ UpdateTreeModel
    \/ \E text \in TreeFilterTexts : SetFilterText(text)
    \/ Tick
    \/ Timeout

SpecTree == InitTree /\ [][NextTree]_vars

-----------------------------------------------------------------------------
(* loadmat on its own: what scipy read from a file, then the decoded data.  *)

\* The _fieldnames of the structs of the files, in the order of the file.
FieldOrders == { <<>>, <<"b", "C">>, <<"C", "b">>, <<"C", "ab", "b">>,
                 <<"b", "B">>, <<"B", "b">> }

\* A struct of arrays.
FlatStruct(names) == Struct([i \in 1..Len(names) |-> Item(names[i], Arr(<<i>>))])

\* A struct whose first field is a struct.
NestedStruct(names, inner) ==
    Struct([i \in 1..Len(names) |-> Item(names[i], IF i = 1 THEN inner ELSE Arr(<<i>>))])

StructValues ==
    {FlatStruct(names) : names \in FieldOrders}
        \cup {NestedStruct(names, FlatStruct(inner)) :
                 names \in FieldOrders \ {<<>>}, inner \in FieldOrders}

\* A struct array: scipy returns an array of mat_struct objects.
StructArray == List(<<FlatStruct(<<"C", "b">>), FlatStruct(<<"C", "b">>)>>)

\* The names of the variables of the files, in the order of the file.
VariableOrders == { <<"a">>, <<"a", "c">>, <<"c", "a">>, <<"B", "a">> }

\* The metadata of a file, as scipy returns it before the variables.
MetaItems == [i \in 1..Len(MetaKeys) |-> Item(MetaKeys[i], PyNone)]

RawFiles ==
    {Dict(meta \o [i \in 1..Len(names) |-> Item(names[i], IF i = 1 THEN first ELSE rest)]) :
        meta \in {<<>>, MetaItems}, names \in VariableOrders,
        first \in StructValues \cup {Arr(<<1>>), StructArray},
        rest \in {Arr(<<2>>), FlatStruct(<<"C", "b">>)}}

InitDecode ==
    /\ InitViewModel
    /\ InitColormap
    /\ arg \in {[op |-> "loadmat", data |-> data] : data \in RawFiles}
    /\ out = NoCall

\* QuadModel.load_mat(filepath)
LoadMat ==
    /\ arg.op = "loadmat" /\ out = NoCall
    /\ out' = [op |-> "loadmat", ret |-> loadmat(arg.data)]
    /\ UNCHANGED <<arg, cm, vmVars, filterVars>>

NextDecode == LoadMat

SpecDecode == InitDecode /\ [][NextDecode]_vars

-----------------------------------------------------------------------------
(* A recording with the same parent name in two groups.                     *)

\* {"Front": {"Radar": {"Range": [10,11], "TimestampLogfile": [1,2]}},
\*  "Rear":  {"Radar": {"Range": [30,31], "Speed": [7,8],
\*                      "Sub": {"x": [2,4], "y": [5,6]}, "TimestampLogfile": [5,6]}}}
DataGroups ==
    Dict(<< Item("Front", Dict(<< Item("Radar",
                Dict(<< Item("Range", Arr(<<10, 11>>)),
                        Item("TimestampLogfile", Arr(<<1, 2>>)) >>)) >>)),
            Item("Rear", Dict(<< Item("Radar",
                Dict(<< Item("Range", Arr(<<30, 31>>)),
                        Item("Speed", Arr(<<7, 8>>)),
                        Item("Sub", Dict(<< Item("x", Arr(<<2, 4>>)),
                                            Item("y", Arr(<<5, 6>>)) >>)),
                        Item("TimestampLogfile", Arr(<<5, 6>>)) >>)) >>)) >>)

GroupPaths == { <<"Front", "Radar", "Range">>, <<"Rear", "Radar", "Range">>,
                <<"Rear", "Radar", "Speed">>, <<"Rear", "Radar", "Sub">> }

NextGroups ==
    \/ \E path \in GroupPaths, store \in PlotStore : Select(path, store)
    \/ \E path \in GroupPaths, store \in PlotStore : Deselect(path, store)
    \/ \E x \in RefInputs : UpdateGlobalTsRef(x)
    \/ ResetGlobalTsRef
    \/ SetAndLoadMat(".mat", DataGroups)

SpecGroups == Init /\ [][NextGroups]_vars

-----------------------------------------------------------------------------
(* Double clicks on the tree: QuadView's handlers over the two stores. What  *)
(* a handler did is "added", "moved" (added to the plot store and taken out  *)
(* of the data-insight store), "removed", "ignored" or "raise".              *)

\* item.hasChildren()
hasChildren(model, item) == RowsOf(model, item) # <<>>

\* an add_signal that leaves the data-insight store alone
add_signal_KeepDi(item_path, di) == [di |-> di, moved |-> FALSE]

\* add_signal(item, item_path, update_qva), as far as the stores go:
\* "if is_di_already_selected(item_path): deselect_item(item_path, selected_di_only_data)"
add_signal(item_path, di) ==
    IF is_selected(di, item_path)
    THEN [di |-> deselect_item(di, item_path).mem, moved |-> TRUE]
    ELSE [di |-> di, moved |-> FALSE]

\* on_tree_item_double_clicked(index) for the item with the given path
on_tree_item_double_clicked(item_path, sig, di, data, ref) ==
    IF is_selected(sig, item_path)
    THEN [sig |-> deselect_item(sig, item_path).mem, di |-> di, did |-> "removed"]
    ELSE LET sel   == select_item(sig, item_path, data, ref)
             added == add_signal(item_path, di)
         IN  IF sel.ret = "true"
             THEN [sig |-> sel.mem, di |-> added.di,
                   did |-> IF added.moved THEN "moved" ELSE "added"]
             ELSE [sig |-> sel.mem, di |-> di,
                   did |-> IF sel.ret = "raise" THEN "raise" ELSE "ignored"]

\* on_tree_item_right_double_clicked(index) for the item with the given path
on_tree_item_right_double_clicked(item_path, sig, di, data, ref) ==
    IF is_selected(sig, item_path) THEN [sig |-> sig, di |-> di, did |-> "ignored"]
    ELSE IF is_selected(di, item_path)
    THEN [sig |-> sig, di |-> deselect_item(di, item_path).mem, did |-> "removed"]
    ELSE LET sel == select_item(di, item_path, data, ref)
         IN  [sig |-> sig, di |-> sel.mem,
              did |-> CASE sel.ret = "true" -> "added" [] sel.ret = "raise" -> "raise"
                        [] OTHER -> "ignored"]

\* The items of the tree menu that answer a double click: "if item.hasChildren(): return".
\* The tree is the one update_tree_model generated at the last load.
ClickableItems ==
    LET model == generate_tree_model(loaded_data)
    IN  {qt_item_to_path(model, item) :
            item \in {n \in 1..Len(model.items) : ~hasChildren(model, n)}}

\* A left double click on an item of the tree.
TreeItemDoubleClicked(item_path) ==
    LET r == on_tree_item_double_clicked(item_path, selected_signals_data,
                                         selected_di_only_data, loaded_data, global_ts_ref)
    IN  /\ item_path \in ClickableItems
        /\ selected_signals_data' = r.sig
        /\ selected_di_only_data' = r.di
        /\ last' = Call("left", item_path, r.did)
        /\ UNCHANGED <<loaded_data, mat_set, global_ts_ref, loaded_ts_ref, placeholder>>
        /\ UNCHANGED <<filterVars, utilVars, cm>>

\* A right double click on an item of the tree.
TreeItemRightDoubleClicked(item_path) ==
    LET r == on_tree_item_right_double_clicked(item_path, selected_signals_data,
                                               selected_di_only_data, loaded_data, global_ts_ref)
    IN  /\ item_path \in ClickableItems
        /\ selected_signals_data' = r.sig
        /\ selected_di_only_data' = r.di
        /\ last' = Call("right", item_path, r.did)
        /\ UNCHANGED <<loaded_data, mat_set, global_ts_ref, loaded_ts_ref, placeholder>>
        /\ UNCHANGED <<filterVars, utilVars, cm>>

\* The paths of the items of the recordings.
TreePaths ==
    UNION {LET model == generate_tree_model(data)
           IN  {qt_item_to_path(model, n) : n \in 1..Len(model.items)} : data \in Datasets \cup {DataGroups}}

NextClicks ==
    \/ \E item_path \in TreePaths : TreeItemDoubleClicked(item_path)
    \/ \E item_path \in TreePaths : TreeItemRightDoubleClicked(item_path)
    \/ \E rows \in ConfFiles : ParseAndLoadConf(rows)
    \/ \E data \in {DataGroups, DataOther, EmptyDict} : SetAndLoadMat(".mat", data)
    \/ ClearPlots

SpecClicks == Init /\ [][NextClicks]_vars

-----------------------------------------------------------------------------
(* handle_dropped_files on its own. A dropped file is its name, its suffix  *)
(* and whether handling it goes through (a script that cannot be imported   *)
(* or whose functions break the loader, a conf file that makes              *)
(* parse_and_load_conf raise, do not). The calls made are kept as a log;    *)
(* a script's entry names the recording in place when it ran.               *)

File(name, suffix, ok) == [name |-> name, suffix |-> suffix, ok |-> ok]

\* No path: pathlib.Path(""), for which is_file() is false.
NoFile == File("", "", FALSE)

\* The loop over filepaths: the latest file with a suffix, and all files with it.
LatestWith(filepaths, suffix) ==
    LET hits == SelectSeq(filepaths, LAMBDA f : f.suffix = suffix)
    IN  IF hits = <<>> THEN NoFile ELSE hits[Len(hits)]

AllWith(filepaths, suffix) == SelectSeq(filepaths, LAMBDA f : f.suffix = suffix)

\* a loop over the scripts that the first failure ends
RunScripts_Abort(pyfiles, current_mat) ==
    LET bad == {i \in 1..Len(pyfiles) : ~pyfiles[i].ok}
        n   == IF bad = {} THEN Len(pyfiles) ELSE CHOOSE i \in bad : \A j \in bad : i <= j
    IN  [i \in 1..n |-> [op |-> "add_custom_data_points", file |-> pyfiles[i].name,
                          mat |-> current_mat.name, raised |-> ~pyfiles[i].ok]]

\* "for pyfile in pyfiles: try: self.add_custom_data_points(pyfile) except Exception: continue"
RunScripts(pyfiles, current_mat) ==
    [i \in 1..Len(pyfiles) |-> [op |-> "add_custom_data_points", file |-> pyfiles[i].name,
                                 mat |-> current_mat.name, raised |-> ~pyfiles[i].ok]]

\* "for conf in config_files: self.parse_and_load_conf(conf)": nothing catches an
\* exception here, so the first conf file that raises is the last one handled.
ParseConfs(config_files, current_mat) ==
    LET bad == {i \in 1..Len(config_files) : ~config_files[i].ok}
        n   == IF bad = {} THEN Len(config_files) ELSE CHOOSE i \in bad : \A j \in bad : i <= j
    IN  [log |-> [i \in 1..n |-> [op |-> "parse_and_load_conf", file |-> config_files[i].name,
                                   mat |-> current_mat.name, raised |-> ~config_files[i].ok]],
         raised |-> bad # {}]

\* handle_dropped_files(filepaths)
handle_dropped_files(filepaths) ==
    LET current_mat  == LatestWith(filepaths, ".mat")
        config_files == AllWith(filepaths, ".conf")
        pyfiles      == AllWith(filepaths, ".py")
        loads == IF current_mat = NoFile THEN <<>>
                 ELSE << [op |-> "set_and_load_mat", file |-> current_mat.name,
                          mat |-> current_mat.name, raised |-> FALSE] >>
        confs == ParseConfs(config_files, current_mat)
    IN  [log |-> loads \o RunScripts(pyfiles, current_mat) \o confs.log,
         raised |-> confs.raised]

\* The files that can be dropped.
DropFiles ==
    { File("m1", ".mat", TRUE), File("m2", ".mat", TRUE),
      File("p1", ".py", TRUE), File("p2", ".py", FALSE),
      File("c1", ".conf", TRUE), File("c2", ".conf", FALSE),
      File("v1", ".dat", TRUE), File("t1", ".txt", TRUE) }

RECURSIVE ListsUpTo(_, _)
ListsUpTo(S, n) ==
    IF n = 0 THEN {<<>>}
    ELSE LET shorter == ListsUpTo(S, n - 1)
         IN  shorter \cup {Append(l, f) : l \in shorter, f \in S}

InitDrop ==
    /\ InitViewModel
    /\ InitColormap
    /\ arg \in {[op |-> "drop", filepaths |-> l] : l \in ListsUpTo(DropFiles, MaxDrop)}
    /\ out = NoCall

\* QuadView.dropEvent -> handle_dropped_files(filepaths)
HandleDroppedFiles ==
    /\ arg.op = "drop" /\ out = NoCall
    /\ out' = [op |-> "drop"] @@ handle_dropped_files(arg.filepaths)
    /\ UNCHANGED <<arg, cm, vmVars, filterVars>>

NextDrop == HandleDroppedFiles

SpecDrop == InitDrop /\ [][NextDrop]_vars

-----------------------------------------------------------------------------
(* parse_and_load_conf with its effects: the plot selection store, the      *)
(* signal_silent_add_plot emissions and the number of signal_update_qva     *)
(* emissions. In a conf text the names are written as one piece each.       *)

\* The loop "for item_path in parsed_conf_data" from the i-th element on. What
\* parse_conf returned is the pair (parsed_data, secondary_data), so item_path is a
\* list of token lists. With two or more token lists, is_signal_already_selected
\* gets to "parent in self.selected_signals_data" with a list as parent: TypeError.
RECURSIVE ConfLoop(_, _, _, _, _)
ConfLoop(parsed_conf_data, i, acc, data, ref) ==
    IF i > Len(parsed_conf_data) THEN acc
    ELSE LET item_path == parsed_conf_data[i]
         IN  IF ~invalid_signal(item_path) THEN [acc EXCEPT !.ret = "raise"]
             ELSE LET r == select_item(acc.sig, item_path, data, ref)
                  IN  IF r.ret = "raise" THEN [acc EXCEPT !.ret = "raise"]
                      ELSE IF r.ret # "true" THEN ConfLoop(parsed_conf_data, i + 1, acc, data, ref)
                      ELSE IF ~find_tree_item_by_path(generate_tree_model(data), item_path).found
                      THEN [acc EXCEPT !.sig = deselect_item(r.mem, item_path).mem,
                                       !.ret = "return"]
                      ELSE ConfLoop(parsed_conf_data, i + 1,
                                    [acc EXCEPT !.sig = r.mem, !.added = TRUE,
                                                !.plots = Append(@, item_path)], data, ref)

\* parse_and_load_conf(path) for a file with the given rows
parse_and_load_conf_on(rows, sig, data, ref) ==
    LET parsed == parse_conf(".conf", rows, ";", "/")
        r == ConfLoop(<<parsed.parsed_data, parsed.secondary_data>>, 1,
                      [sig |-> sig, plots |-> <<>>, added |-> FALSE, ret |-> "none"], data, ref)
    IN  [sig |-> r.sig, plots |-> r.plots, ret |-> IF r.ret = "raise" THEN "raise" ELSE "none",
         updates |-> IF r.ret = "none" /\ r.added THEN 1 ELSE 0,
         parsed_data |-> parsed.parsed_data]

\* conf files over the recording with two groups: one signal; a signal and a comment;
\* a signal of a group that does not exist; two signals; an empty file
ConfTexts ==
    { << <<"Front", ";", "Radar", ";", "Range">> >>,
      << <<"#", "x">>, <<"Rear", ";", " ", "Radar", ";", "Speed">> >>,
      << <<"Left", ";", "Radar", ";", "Range">> >>,
      << <<"Front", ";", "Radar", ";", "Range">>, <<"Rear", ";", "Radar", ";", "Speed">> >>,
      << >> }

\* QuadView.parse_and_load_conf(path) -> QuadViewModel.parse_and_load_conf(path)
LoadConf(rows) ==
    LET r == parse_and_load_conf_on(rows, selected_signals_data, loaded_data, global_ts_ref)
    IN  /\ selected_signals_data' = r.sig
        /\ last' = Call("conf", NoPath, r.ret)
        /\ out' = [op |-> "conf", parsed_data |-> r.parsed_data, plots |-> r.plots,
                   updates |-> r.updates]
        /\ UNCHANGED <<loaded_data, mat_set, selected_di_only_data,
                       global_ts_ref, loaded_ts_ref, placeholder>>
        /\ UNCHANGED <<filterVars, arg, cm>>

NextConfLoad ==
    \/ \E rows \in ConfTexts : LoadConf(rows)
    \/ \E path \in GroupPaths : Select(path, "signals")
    \/ \E path \in GroupPaths : Deselect(path, "signals")
    \/ \E data \in {DataGroups, DataOther} : SetAndLoadMat(".mat", data)

SpecConfLoad == Init /\ [][NextConfLoad]_vars

-----------------------------------------------------------------------------
(* The data insight panel. di_dict is kept as the mapping handed to          *)
(* format_data_insight: display name -> value, in insertion order. A display *)
(* name is a text in pieces: <<child>>, or <<parent, "/", child>>.           *)

skip_keys == {"ts", "ts_raw"}

\* np.argmin that returns the last of several smallest elements
np_argmin_abs_Last(x, ref_time) ==
    LET dist(i) == IF x[i] >= ref_time THEN x[i] - ref_time ELSE ref_time - x[i]
    IN  CHOOSE i \in 1..Len(x) :
            /\ \A j \in 1..Len(x) : dist(i) <= dist(j)
            /\ \A j \in (i + 1)..Len(x) : dist(j) > dist(i)

\* np.argmin(np.abs(x - ref_time)) for a non-empty x, as a place 1..Len(x): the
\* first of the smallest elements.
np_argmin_abs(x, ref_time) ==
    LET dist(i) == IF x[i] >= ref_time THEN x[i] - ref_time ELSE ref_time - x[i]
    IN  CHOOSE i \in 1..Len(x) :
            /\ \A j \in 1..Len(x) : dist(i) <= dist(j)
            /\ \A j \in 1..(i - 1) : dist(j) > dist(i)

\* The view's graph_plots: update_graph has put one plot per signal of the plot
\* store for which get_signal_data returned, under the name parent/child; a series of
\* one point is a vertical line at (x[0], y[0]). Here in the order of the store.
GraphPlots(sig) ==
    LET PlotsOf(parent, entry) ==
            LET kept == SelectSeq(entry.d, LAMBDA e :
                            /\ ~(e.k \in skip_keys /\ ~IsDict(e.v))
                            /\ ~SeriesOf(entry, e.k).missing)
            IN  [j \in 1..Len(kept) |->
                    LET r == SeriesOf(entry, kept[j].k)
                    IN  Item(QualifiedName(parent, kept[j].k),
                             [x |-> r.ts.a, y |-> r.val.a, vline |-> Len(r.ts.a) = 1])]
        RECURSIVE From(_)
        From(i) == IF i > DictLen(sig) THEN <<>>
                   ELSE PlotsOf(sig.d[i].k, sig.d[i].v) \o From(i + 1)
    IN  From(1)

\* The loop "for key, val in graph_plots.items()" from the i-th plot on.
RECURSIVE PlotsLoop(_, _, _, _)
PlotsLoop(graph_plots, i, di_dict, ref_time) ==
    IF i > Len(graph_plots) THEN di_dict
    ELSE LET key    == graph_plots[i].k
             val    == graph_plots[i].v
             pieces == Split(key, "/")
             item_name == IF Len(pieces) # 2 THEN key
                          ELSE IF Has(di_dict, pieces[2]) THEN pieces[1] \o <<"/">> \o pieces[2]
                          ELSE pieces[2]
             y == IF val.vline THEN val.y[1]
                  ELSE val.y[np_argmin_abs(val.x, ref_time)]
         IN  PlotsLoop(graph_plots, i + 1, Put(di_dict, item_name, y), ref_time)

\* a display name that is the child name whatever di_dict holds
ItemName_Plain(di_dict, parent, child) == <<child>>

\* "Lazy handle duplicates": parent/child if the child name is taken, else the child name
ItemName(di_dict, parent, child) ==
    IF Has(di_dict, <<child>>) THEN QualifiedName(parent, child) ELSE <<child>>

\* "for sub_key, sub_val in val.items()" of a custom child, from the k-th item on
RECURSIVE SubLoop(_, _, _, _, _)
SubLoop(val, k, item_name, acc, ref_time) ==
    IF k > DictLen(val) \/ acc.ret = "raise" THEN acc
    ELSE LET sub_key == val.d[k].k
             sub_val == val.d[k].v
         IN  IF sub_key \in skip_keys THEN SubLoop(val, k + 1, item_name, acc, ref_time)
             ELSE IF ~Has(val, "ts") THEN [acc EXCEPT !.ret = "raise"]
             ELSE LET idx == np_argmin_abs(Get(val, "ts").a, ref_time)
                  IN  IF idx > Len(sub_val.a) THEN [acc EXCEPT !.ret = "raise"]
                      ELSE SubLoop(val, k + 1, item_name,
                                   [acc EXCEPT !.di_dict = Put(@, item_name, sub_val.a[idx])],
                                   ref_time)

\* "for child, val in item.items()" of a parent entry, from the j-th item on.
\* item["ts"] of an entry without ts is a KeyError.
RECURSIVE ChildLoop(_, _, _, _, _)
ChildLoop(parent, item, j, acc, ref_time) ==
    IF j > DictLen(item) \/ acc.ret = "raise" THEN acc
    ELSE LET child == item.d[j].k
             val   == item.d[j].v
             custom_items == IsDict(val)
             item_name == ItemName(acc.di_dict, parent, child)
         IN  IF child \in skip_keys /\ ~custom_items
             THEN ChildLoop(parent, item, j + 1, acc, ref_time)
             ELSE IF custom_items
             THEN ChildLoop(parent, item, j + 1, SubLoop(val, 1, item_name, acc, ref_time), ref_time)
             ELSE IF ~Has(item, "ts") THEN [acc EXCEPT !.ret = "raise"]
             ELSE LET idx == np_argmin_abs(Get(item, "ts").a, ref_time)
                  IN  IF idx > Len(val.a) THEN [acc EXCEPT !.ret = "raise"]
                      ELSE ChildLoop(parent, item, j + 1,
                                     [acc EXCEPT !.di_dict = Put(@, item_name, val.a[idx])],
                                     ref_time)

\* "for parent, item in self.selected_di_only_data.items()" from the i-th entry on
RECURSIVE ParentLoop(_, _, _, _)
ParentLoop(di, i, acc, ref_time) ==
    IF i > DictLen(di) \/ acc.ret = "raise" THEN acc
    ELSE ParentLoop(di, i + 1, ChildLoop(di.d[i].k, di.d[i].v, 1, acc, ref_time), ref_time)

\* get_time_based_data_insight(graph_plots, ref_time): the di_dict it formats, or "raise"
get_time_based_data_insight(graph_plots, di, ref_time) ==
    ParentLoop(di, 1, [ret |-> "ok", di_dict |-> PlotsLoop(graph_plots, 1, EmptyDict, ref_time)],
               ref_time)

\* get_default_data_insight: "for sub_key, sub_val in val.items()" from the k-th item
\* on. sub_val[0] of an empty series is an IndexError.
RECURSIVE DefaultSubLoop(_, _, _, _)
DefaultSubLoop(val, k, item_name, acc) ==
    IF k > DictLen(val) \/ acc.ret = "raise" THEN acc
    ELSE LET sub_key == val.d[k].k
             sub_val == val.d[k].v
         IN  IF sub_key \in skip_keys THEN DefaultSubLoop(val, k + 1, item_name, acc)
             ELSE IF sub_val.a = <<>> THEN [acc EXCEPT !.ret = "raise"]
             ELSE DefaultSubLoop(val, k + 1, item_name,
                                 [acc EXCEPT !.di_dict = Put(@, item_name, sub_val.a[1])])

\* get_default_data_insight: "for child, val in item.items()" from the j-th item on
RECURSIVE DefaultChildLoop(_, _, _, _)
DefaultChildLoop(parent, item, j, acc) ==
    IF j > DictLen(item) \/ acc.ret = "raise" THEN acc
    ELSE LET child == item.d[j].k
             val   == item.d[j].v
             custom_items == IsDict(val)
             item_name == ItemName(acc.di_dict, parent, child)
         IN  IF child \in skip_keys /\ ~custom_items
             THEN DefaultChildLoop(parent, item, j + 1, acc)
             ELSE IF custom_items
             THEN DefaultChildLoop(parent, item, j + 1, DefaultSubLoop(val, 1, item_name, acc))
             ELSE IF val.a = <<>> THEN [acc EXCEPT !.ret = "raise"]
             ELSE DefaultChildLoop(parent, item, j + 1,
                                   [acc EXCEPT !.di_dict = Put(@, item_name, val.a[1])])

\* get_default_data_insight: "for parent, item in merged_data.items()" from the i-th
\* entry on
RECURSIVE DefaultParentLoop(_, _, _)
DefaultParentLoop(merged_data, i, acc) ==
    IF i > DictLen(merged_data) \/ acc.ret = "raise" THEN acc
    ELSE DefaultParentLoop(merged_data, i + 1,
                           DefaultChildLoop(merged_data.d[i].k, merged_data.d[i].v, 1, acc))

\* get_default_data_insight() with the two stores as objects: the di_dict it formats
\* (or "raise"), and the two stores as they are after the call.
get_default_data_insight(sig, di) ==
    LET a == Alloc(<<>>, sig)
        b == Alloc(a.heap, di)
        m == merge_dicts(b.heap, a.id, b.id)
        r == IF m.raised THEN [ret |-> "raise", di_dict |-> EmptyDict]
             ELSE DefaultParentLoop(Deref(m.heap, m.result), 1,
                                    [ret |-> "ok", di_dict |-> EmptyDict])
    IN  [ret |-> r.ret, di_dict |-> r.di_dict,
         sig |-> Deref(m.heap, a.id), di |-> Deref(m.heap, b.id)]

\* {"CustomItems": {"Range": [10,11,12], "TimestampLogfile": [1,3,5]},
\*  "Lidar": {"Range": [20,21], "TimestampLogfile": [2,4]}}
\* A recording with a group named as the group of the custom items, and the same
\* child name in two groups.
DataInsight ==
    Dict(<< Item("CustomItems", Dict(<< Item("Range", Arr(<<10, 11, 12>>)),
                                        Item("TimestampLogfile", Arr(<<1, 3, 5>>)) >>)),
            Item("Lidar", Dict(<< Item("Range", Arr(<<20, 21>>)),
                                  Item("TimestampLogfile", Arr(<<2, 4>>)) >>)) >>)

\* The tree items of the signals: the leaves of the recording and the item
\* on_data_addition has appended for the custom item P.
InsightPaths == { <<"CustomItems", "Range">>, <<"Lidar", "Range">>, <<"CustomItems", "P">> }

\* The slider times.
Times == 0..MaxTime

\* The tree has the item: the signal is in loaded_data.
HasItem(item_path) ==
    LET walk == Traverse(loaded_data, SubSeq(item_path, 1, Len(item_path) - 1))
    IN  ~walk.raised /\ IsDict(walk.val) /\ Has(walk.val, item_path[Len(item_path)])

\* A left double click on the tree item of a signal. The panel's text is set anew
\* after every change of the selection: what the last slider move gave is gone.
PlotClicked(item_path) ==
    LET r == on_tree_item_double_clicked(item_path, selected_signals_data,
                                         selected_di_only_data, loaded_data, global_ts_ref)
    IN  /\ HasItem(item_path)
        /\ selected_signals_data' = r.sig
        /\ selected_di_only_data' = r.di
        /\ last' = Call("left", item_path, r.did)
        /\ UNCHANGED <<loaded_data, mat_set, global_ts_ref, loaded_ts_ref, placeholder>>
        /\ out' = NoCall
        /\ UNCHANGED <<filterVars, arg, cm>>

\* A right double click on the tree item of a signal.
InsightClicked(item_path) ==
    LET r == on_tree_item_right_double_clicked(item_path, selected_signals_data,
                                               selected_di_only_data, loaded_data, global_ts_ref)
    IN  /\ HasItem(item_path)
        /\ selected_signals_data' = r.sig
        /\ selected_di_only_data' = r.di
        /\ last' = Call("right", item_path, r.did)
        /\ UNCHANGED <<loaded_data, mat_set, global_ts_ref, loaded_ts_ref, placeholder>>
        /\ out' = NoCall
        /\ UNCHANGED <<filterVars, arg, cm>>

\* on_slider_change -> set_time_based_data_insight(time)
SliderChange(ref_time) ==
    LET r == get_time_based_data_insight(GraphPlots(selected_signals_data),
                                         selected_di_only_data, ref_time)
    IN  /\ last' = Call("insight", NoPath, r.ret)
        /\ out' = [op |-> "insight", ref_time |-> ref_time, di_dict |-> r.di_dict]
        /\ UNCHANGED <<loaded_data, mat_set, selected_signals_data, selected_di_only_data,
                       global_ts_ref, loaded_ts_ref, placeholder>>
        /\ UNCHANGED <<filterVars, arg, cm>>

\* set_default_selected_signals_data_insight
DefaultInsight ==
    LET r == get_default_data_insight(selected_signals_data, selected_di_only_data)
    IN  /\ selected_signals_data' = r.sig
        /\ selected_di_only_data' = r.di
        /\ last' = Call("default", NoPath, r.ret)
        /\ out' = [op |-> "default", di_dict |-> r.di_dict]
        /\ UNCHANGED <<loaded_data, mat_set, global_ts_ref, loaded_ts_ref, placeholder>>
        /\ UNCHANGED <<filterVars, arg, cm>>

NextInsight ==
    \/ \E item_path \in InsightPaths : PlotClicked(item_path)
    \/ \E item_path \in InsightPaths : InsightClicked(item_path)
    \/ \E ref_time \in Times : SliderChange(ref_time)
    \/ DefaultInsight
    \/ SetAndLoadMat(".mat", DataInsight)
    \/ AddCustomDataPoints(CustomP)

SpecInsight == Init /\ [][NextInsight]_vars

-----------------------------------------------------------------------------
(* The Colormap on its own: the calls QuadView makes on it.                 *)

\* update_graph for a signal without a plot: self.cm.get_color(item_id=signal_name)
GetColor(item_id) ==
    LET r == get_color(cm, item_id)
    IN  /\ cm' = r.cm
        /\ last' = Call("get_color", <<item_id>>, r.color)
        /\ UNCHANGED <<loaded_data, mat_set, selected_signals_data, selected_di_only_data,
                       global_ts_ref, loaded_ts_ref, placeholder>>
        /\ UNCHANGED <<filterVars, utilVars>>

\* on_tree_item_double_clicked on a plotted signal: self.cm.release_color(signal_name)
ReleaseColor(item_id) ==
    /\ cm' = release_color(cm, item_id)
    /\ last' = Call("release_color", <<item_id>>, "none")
    /\ UNCHANGED <<loaded_data, mat_set, selected_signals_data, selected_di_only_data,
                   global_ts_ref, loaded_ts_ref, placeholder>>
    /\ UNCHANGED <<filterVars, utilVars>>

\* reset_ui_workspace: self.cm.reset()
ResetColors ==
    /\ cm' = Colormap_reset
    /\ last' = Call("reset", NoPath, "none")
    /\ UNCHANGED <<loaded_data, mat_set, selected_signals_data, selected_di_only_data,
                   global_ts_ref, loaded_ts_ref, placeholder>>
    /\ UNCHANGED <<filterVars, utilVars>>

NextColors ==
    \/ \E item_id \in ItemIds : GetColor(item_id)
    \/ \E item_id \in ItemIds : ReleaseColor(item_id)
    \/ ResetColors

SpecColors == Init /\ [][NextColors]_vars

-----------------------------------------------------------------------------
(* Vocabulary of the properties                                            *)

BookKeys == {"ts", "ts_raw"}

ParentOf(path) == path[Len(path) - 1]
ChildOf(path)  == path[Len(path)]

\* The indices of an entry's children: plain series and custom mappings.
PlainChildren(entry)  == {i \in 1..DictLen(entry) :
                            entry.d[i].k \notin BookKeys /\ ~IsDict(entry.d[i].v)}
CustomChildren(entry) == {i \in 1..DictLen(entry) : IsDict(entry.d[i].v)}
Children(entry)       == PlainChildren(entry) \cup CustomChildren(entry)

\* ts = ts_raw - v, element-wise, in a mapping that holds both.
TsMatches(m, v) ==
    /\ Has(m, "ts") /\ Has(m, "ts_raw")
    /\ Get(m, "ts") = Arr(ArrMinus(Get(m, "ts_raw").a, v))

\* Every entry of a store has ts = ts_raw - v: at parent level where the parent
\* holds plain children, and in each custom child.
StoreRecomputed(mem, v) ==
    \A i \in 1..DictLen(mem) :
        LET entry == mem.d[i].v
        IN  /\ PlainChildren(entry) # {} => TsMatches(entry, v)
            /\ \A c \in CustomChildren(entry) : TsMatches(entry.d[c].v, v)

\* The group addressed by path[:-1], where the walk reaches a mapping.
GroupOf(path) == Traverse(loaded_data, SubSeq(path, 1, Len(path) - 1))
ResolvesToGroup(path) == ~GroupOf(path).raised /\ IsDict(GroupOf(path).val)

Loaded == mat_set /\ loaded_data # EmptyDict

\* The result of update_global_ts_ref(x) in the current state.
UpdateNow(x) == update_global_ts_ref(x, global_ts_ref, mat_set, loaded_data,
                                     selected_signals_data, selected_di_only_data)

\* The result of reset_global_ts_ref() in the current state.
ResetNow == reset_global_ts_ref(loaded_ts_ref, global_ts_ref, mat_set, loaded_data,
                                selected_signals_data, selected_di_only_data)

-----------------------------------------------------------------------------
(* C1 .. C10                                                               *)

\* C1: after an update_global_ts_ref(v) that returned true, every entry of both
\* stores has ts = ts_raw - v: the parent-level ts of every parent holding plain
\* children and the own ts of every custom child, in whatever order they were selected.
C1_RecomputedAfterUpdate ==
    (last.op = "update" /\ last.ret = "true") =>
        /\ StoreRecomputed(selected_signals_data, global_ts_ref.v)
        /\ StoreRecomputed(selected_di_only_data, global_ts_ref.v)

\* C2: for every valid path P whose group has a TimestampLogfile key, in either
\* store: select(P) makes P selected; the deselect(P) that follows returns
\* (true, "parent/child") and leaves P unselected; and when P was the only child of
\* its parent, the parent key is gone from the store.
C2_SelectDeselectSymmetry ==
    \A path \in Paths, store \in Stores :
        (~invalid_signal(path) /\ ResolvesToGroup(path)
           /\ Has(GroupOf(path).val, "TimestampLogfile")) =>
        LET sel == select_item(Store(store), path, loaded_data, global_ts_ref)
            des == deselect_item(sel.mem, path)
            entry == Get(sel.mem, ParentOf(path))
        IN  /\ sel.ret = "true"
            /\ is_selected(sel.mem, path)
            /\ des.ret = "true"
            /\ des.name = QualifiedName(ParentOf(path), ChildOf(path))
            /\ ~is_selected(des.mem, path)
            /\ (\A i \in Children(entry) : entry.d[i].k = ChildOf(path))
                  => ~Has(des.mem, ParentOf(path))

\* C3: deselect(P, store) of a valid path that is not selected in store returns
\* (false, "") without raising and leaves the store as it is.
C3_DeselectUnselected ==
    \A path \in Paths, store \in Stores :
        (~invalid_signal(path) /\ ~is_selected(Store(store), path)) =>
        LET des == deselect_item(Store(store), path)
        IN  des.ret = "false" /\ des.name = NoName /\ des.mem = Store(store)

\* C4 as claimed: whenever update_global_ts_ref(x) returns false it is a no-op:
\* global_ts_ref, the displayed reference value and both stores are as before.
C4_FalseIsNoOp ==
    \A x \in RefInputs :
        LET r == UpdateNow(x)
        IN  r.ret = "false" =>
              /\ r.ref = global_ts_ref
              /\ BarAfter(r) = placeholder
              /\ r.sig = selected_signals_data /\ r.di = selected_di_only_data

\* C4 amended: whenever update_global_ts_ref(x) returns false both stores are as
\* before. When x is not coercible to float, equals global_ts_ref, or no dataset is
\* loaded, global_ts_ref and the displayed reference value are as before too; in the
\* remaining case (both stores empty) global_ts_ref becomes float(x) and the bar
\* shows it.
C4_FalseKeepsStores ==
    \A x \in RefInputs :
        LET r == UpdateNow(x)
            rejected == ~ToFloat(x).some \/ ToFloat(x) = global_ts_ref \/ ~Loaded
        IN  r.ret = "false" =>
              /\ r.sig = selected_signals_data /\ r.di = selected_di_only_data
              /\ rejected => (r.ref = global_ts_ref /\ BarAfter(r) = placeholder)
              /\ ~rejected => /\ selected_signals_data = EmptyDict
                              /\ selected_di_only_data = EmptyDict
                              /\ r.ref = ToFloat(x)
                              /\ BarAfter(r) = PlaceholderText(ToFloat(x))

\* A rejected update (false) while a signal is selected.
C4_Witness ==
    /\ last.op = "update" /\ last.ret = "false"
    /\ Loaded /\ selected_signals_data # EmptyDict

\* C5: after a .mat load with its "new data loaded" handling, both stores are
\* empty, whatever dataset the decoder returned.
C5_LoadClearsStores ==
    (last.op = "load" /\ last.path = <<".mat">>) =>
        selected_signals_data = EmptyDict /\ selected_di_only_data = EmptyDict

\* C6: in either store, a parent entry with at least one plain child has both
\* keys ts and ts_raw.
C6_PlainChildHasTs ==
    \A store \in Stores : \A i \in 1..DictLen(Store(store)) :
        LET entry == Store(store).d[i].v
        IN  PlainChildren(entry) # {} => (Has(entry, "ts") /\ Has(entry, "ts_raw"))

\* C7: neither store holds a parent entry without a selected child (an empty
\* mapping, or one holding only ts / ts_raw).
C7_NoChildlessParent ==
    \A store \in Stores : \A i \in 1..DictLen(Store(store)) :
        Children(Store(store).d[i].v) # {}

\* C8: select(P) returns false and leaves the store as it is when P has fewer than
\* 2 elements, or when the group P[:-1] resolves to has no TimestampLogfile key and
\* the child is not a mapping.
C8_SelectRejects ==
    \A path \in Paths, store \in Stores :
        (\/ invalid_signal(path)
         \/ /\ ResolvesToGroup(path)
            /\ ~Has(GroupOf(path).val, "TimestampLogfile")
            /\ ~IsDict(GetOr(GroupOf(path).val, ChildOf(path), EmptyList))) =>
        LET sel == select_item(Store(store), path, loaded_data, global_ts_ref)
        IN  sel.ret = "false" /\ sel.mem = Store(store)

\* A select of a series whose group has no TimestampLogfile was refused while
\* another signal is selected.
C8_Witness ==
    /\ last.op = "select" /\ last.ret = "false" /\ last.path = <<"Lidar", "Distance">>
    /\ loaded_data = DataRadar
    /\ Has(GroupOf(last.path).val, "Distance")
    /\ selected_signals_data # EmptyDict

\* C9: select(P) is total over paths of length >= 2: when P[:-1] does not resolve
\* to a non-empty group (a key is missing, or the path passes through a leaf), it
\* returns false, raises nothing and changes no store.
C9_SelectTotal ==
    \A path \in Paths, store \in Stores :
        (~invalid_signal(path)
           /\ ~(ResolvesToGroup(path) /\ GroupOf(path).val # EmptyDict)) =>
        LET sel == select_item(Store(store), path, loaded_data, global_ts_ref)
        IN  sel.ret = "false" /\ sel.mem = Store(store)

\* C10: a reset_global_ts_ref() followed at once by a second one: the second
\* returns false and leaves global_ts_ref and both stores as the first left them;
\* and a reset that returned true left global_ts_ref = loaded_ts_ref.
C10_ResetIdempotent ==
    LET first  == ResetNow
        second == reset_global_ts_ref(loaded_ts_ref, first.ref, mat_set, loaded_data,
                                      first.sig, first.di)
    IN  /\ second.ret = "false"
        /\ second.ref = first.ref /\ second.sig = first.sig /\ second.di = first.di
        /\ first.ret = "true" => first.ref = loaded_ts_ref

\* A reset returned true with signals selected: global_ts_ref is back at
\* loaded_ts_ref, and the next reset finds nothing to do.
C10_Witness ==
    /\ last.op = "reset" /\ last.ret = "true"
    /\ global_ts_ref = loaded_ts_ref
    /\ selected_signals_data # EmptyDict
    /\ ResetNow.ret = "false"

-----------------------------------------------------------------------------
(* C11 .. C20                                                              *)

\* The call that just returned was a load of a .mat file.
MatLoaded(call) == call.op = "load" /\ call.path = <<".mat">>

\* C11: immediately after each .mat load, global_ts_ref = loaded_ts_ref =
\* min_dict_value(loaded_data, {"TimestampLogfile"}); and no step other than a .mat
\* load (select, deselect, update / reset of the reference, clearing the selection,
\* adding custom data points, loading a .conf, reading a signal) changes loaded_ts_ref.
C11_LoadedRefFrame ==
    /\ [](MatLoaded(last) =>
            /\ global_ts_ref = loaded_ts_ref
            /\ loaded_ts_ref = min_dict_value(loaded_data, {"TimestampLogfile"}))
    /\ [][MatLoaded(last') \/ loaded_ts_ref' = loaded_ts_ref]_vars

\* Custom data points were added to a loaded recording after the reference was
\* moved and a signal selected: loaded_ts_ref is still the value derived at load.
C11_Witness ==
    /\ last.op = "custom"
    /\ Has(loaded_data, "CustomItems") /\ Has(loaded_data, "Radar")
    /\ loaded_ts_ref.some /\ global_ts_ref # loaded_ts_ref
    /\ selected_signals_data # EmptyDict

\* Every element of every series stored under one of keys, at any depth.
RECURSIVE ElementsUnder(_, _)
ElementsUnder(data, keys) ==
    IF ~IsDict(data) THEN {}
    ELSE UNION { (IF data.d[i].k \in keys /\ data.d[i].v.tag = "arr"
                  THEN {data.d[i].v.a[j] : j \in 1..Len(data.d[i].v.a)} ELSE {})
                 \cup ElementsUnder(data.d[i].v, keys) : i \in 1..Len(data.d) }

\* The least number of a set, None for the empty set.
MinOf(S) == IF S = {} THEN NoFloat ELSE Float(CHOOSE m \in S : \A n \in S : m <= n)

\* C12: the loaded_ts_ref derived by a .mat load is the minimum over all elements of
\* all TimestampLogfile series of the dataset, also where a series does not start
\* with its smallest element.
C12_LoadedRefIsMinimum ==
    MatLoaded(last) => loaded_ts_ref = MinOf(ElementsUnder(loaded_data, {"TimestampLogfile"}))

\* C13: get_signal_data(P) only reads selected_signals_data: for a selected plain
\* signal it returns (the parent entry's ts, the child's series, "parent/child"), for
\* a selected custom signal (the child's own ts, its val, "parent/child"), and for a
\* path that is invalid or not selected ([], [], ""); it raises nothing.
C13_GetSignalData ==
    \A path \in SessionPaths :
        LET r == get_signal_data(selected_signals_data, path)
        IN  /\ r.ret = "ok"
            /\ IF is_selected(selected_signals_data, path)
               THEN LET entry == Get(selected_signals_data, ParentOf(path))
                        child == Get(entry, ChildOf(path))
                    IN  /\ r.name = QualifiedName(ParentOf(path), ChildOf(path))
                        /\ IF IsDict(child)
                           THEN r.ts = Get(child, "ts") /\ r.val = Get(child, "val")
                           ELSE r.ts = Get(entry, "ts") /\ r.val = child
               ELSE r.ts = EmptyList /\ r.val = EmptyList /\ r.name = NoName

\* The child P addresses in loaded_data is a mapping with x and y.
IsCustomSignal(path) ==
    /\ ~invalid_signal(path) /\ ResolvesToGroup(path)
    /\ Has(GroupOf(path).val, ChildOf(path))
    /\ IsDict(Get(GroupOf(path).val, ChildOf(path)))
    /\ Has(Get(GroupOf(path).val, ChildOf(path)), "x")
    /\ Has(Get(GroupOf(path).val, ChildOf(path)), "y")

MergeDone == arg.op = "merge" /\ out # NoCall

\* C15: merge_dicts(A, B) mutates neither A nor B at any depth: read through the
\* heap after the call, both are what they were before it.
C15_MergeKeepsInputs ==
    MergeDone =>
        /\ Deref(out.heap, arg.a) = Deref(arg.heap, arg.a)
        /\ Deref(out.heap, arg.b) = Deref(arg.heap, arg.b)

\* A merge that went two levels down: A = {g: {x: {y: 1}}}, B = {g: {x: {z: 2}}},
\* the result holds both y and z under g/x.
C15_Witness ==
    /\ MergeDone /\ ~out.raised
    /\ Deref(arg.heap, arg.a) = Dict(<< Item("g", Dict(<< Item("x", Dict(<< Item("y", Num(1)) >>)) >>)) >>)
    /\ Deref(out.heap, out.result)
          = Dict(<< Item("g", Dict(<< Item("x", Dict(<< Item("y", Num(1)), Item("z", Num(2)) >>)) >>)) >>)

Keys(x) == {x.d[i].k : i \in 1..Len(x.d)}

\* The merge as claimed: a key of A alone keeps A's value, a key of B alone takes
\* B's, a key of both maps to the merge of the two values when both are mappings,
\* and to B's value otherwise.
RECURSIVE MergeOf(_, _)
MergeOf(A, B) ==
    LET kept == [i \in 1..Len(A.d) |->
                   LET k == A.d[i].k
                   IN  IF ~Has(B, k) THEN A.d[i]
                       ELSE IF IsDict(A.d[i].v) /\ IsDict(Get(B, k))
                       THEN Item(k, MergeOf(A.d[i].v, Get(B, k)))
                       ELSE Item(k, Get(B, k))]
    IN  Dict(kept \o SelectSeq(B.d, LAMBDA e : ~Has(A, e.k)))

\* Equality of values as Python compares them: mappings by their keys and values,
\* whatever the insertion order.
RECURSIVE SameValue(_, _)
SameValue(x, y) ==
    IF IsDict(x) /\ IsDict(y)
    THEN Keys(x) = Keys(y) /\ \A k \in Keys(x) : SameValue(Get(x, k), Get(y, k))
    ELSE x = y

\* C16: for all nested mappings A and B, merge_dicts(A, B) returns the mapping over
\* the keys of A and of B described by MergeOf; in particular a key whose value is a
\* mapping in A and a series or a number in B takes B's value.
C16_MergeResult ==
    MergeDone =>
        /\ ~out.raised
        /\ SameValue(Deref(out.heap, out.result),
                     MergeOf(Deref(arg.heap, arg.a), Deref(arg.heap, arg.b)))

\* The mappings reached from x through nested mappings and through mappings that
\* are elements of sequence values.
RECURSIVE MappingsIn(_)
MappingsIn(x) ==
    IF IsDict(x)
    THEN {x} \cup UNION {MappingsIn(x.d[i].v) : i \in 1..Len(x.d)}
    ELSE IF x.tag = "list"
    THEN UNION {MappingsIn(x.d[i]) : i \in {j \in 1..Len(x.d) : IsDict(x.d[j])}}
    ELSE {}

\* float() of a scalar: a number, a text that reads as a number; None otherwise.
ScalarFloat(x) ==
    CASE x.tag = "num" -> Float(x.a[1])
      [] x.tag = "str" /\ Texts[x.a[1]] = "2" -> Float(2)
      [] OTHER -> NoFloat

\* What an entry's value contributes: float(first element) for a non-empty
\* sequence, float(value) for a scalar, nothing where that cannot be coerced.
EntryFloat(val) ==
    CASE val.tag = "arr"  -> IF val.a = <<>> THEN NoFloat ELSE Float(Head(val.a))
      [] val.tag = "list" -> IF val.d = <<>> THEN NoFloat ELSE ScalarFloat(Head(val.d))
      [] OTHER            -> ScalarFloat(val)

MinDone == arg.op = "min" /\ out # NoCall

TrimOf(str) ==
    CHOOSE t \in {SubSeq(str, i, j) : i \in 1..(Len(str) + 1), j \in 0..Len(str)} :
        \E i \in 1..(Len(str) + 1), j \in 0..Len(str) :
            /\ t = SubSeq(str, i, j)
            /\ \A k \in 1..(i - 1) : str[k] = " "
            /\ \A k \in (j + 1)..Len(str) : str[k] = " "
            /\ t # <<>> => (t[1] # " " /\ t[Len(t)] # " ")

\* The pieces of a line between the occurrences of a delimiter, trimmed, the
\* empty ones left out, in their order in the line.
TokensOf(line, delim) ==
    LET cuts == {0, Len(line) + 1} \cup {i \in 1..Len(line) : line[i] = delim}
        from == {c \in cuts : c <= Len(line)
                                /\ TrimOf(SubSeq(line, c + 1,
                                       (CHOOSE n \in cuts : n > c /\ \A o \in cuts : o > c => n <= o) - 1)) # <<>>}
        piece(c) == TrimOf(SubSeq(line, c + 1,
                        (CHOOSE n \in cuts : n > c /\ \A o \in cuts : o > c => n <= o) - 1))
        nth(i) == CHOOSE c \in from : Cardinality({o \in from : o < c}) = i - 1
    IN  [i \in 1..Cardinality(from) |-> piece(nth(i))]

\* The lines of a file that are neither blank nor comments, and those of them
\* that hold the secondary delimiter / do not.
Telling(rows)   == {i \in 1..Len(rows) : TrimOf(rows[i]) # <<>> /\ TrimOf(rows[i])[1] # "#"}
Secondary(rows) == {i \in Telling(rows) : \E k \in 1..Len(rows[i]) : rows[i][k] = "/"}
Primary(rows)   == Telling(rows) \ Secondary(rows)

\* groups holds, in file order, the tokens of the lines picked, split on delim.
GroupsAre(groups, rows, picked, delim) ==
    /\ Len(groups) = Cardinality(picked)
    /\ \A i \in picked :
          groups[Cardinality({o \in picked : o < i}) + 1] = TokensOf(TrimOf(rows[i]), delim)

ConfDone == arg.op = "conf" /\ out # NoCall

\* C18: parse_conf on a .conf file returns (primary groups, secondary groups) in file
\* order: blank lines and lines starting with '#' (after trimming) contribute
\* nothing; every other line holding '/' contributes its tokens, split on '/', to the
\* secondary groups, every remaining line its tokens, split on ';', to the primary
\* groups; every token is trimmed and none is empty. For another suffix it returns
\* ([], []).
C18_ParseConf ==
    ConfDone =>
        IF arg.suffix = ".conf"
        THEN /\ GroupsAre(out.parsed_data, arg.rows, Primary(arg.rows), ";")
             /\ GroupsAre(out.secondary_data, arg.rows, Secondary(arg.rows), "/")
             /\ \A groups \in {out.parsed_data, out.secondary_data} :
                   \A g \in 1..Len(groups) : \A t \in 1..Len(groups[g]) :
                       LET token == groups[g][t]
                       IN  token # <<>> /\ token[1] # " " /\ token[Len(token)] # " "
        ELSE out.parsed_data = <<>> /\ out.secondary_data = <<>>

\* "a;b", "#a", "b/a" parsed to primary [["a","b"]] and secondary [["b","a"]].
C18_Witness ==
    /\ ConfDone /\ arg.suffix = ".conf"
    /\ arg.rows = << <<"a", ";", "b">>, <<"#", "a">>, <<"b", "/", "a">> >>
    /\ out.parsed_data = << << <<"a">>, <<"b">> >> >>
    /\ out.secondary_data = << << <<"b">>, <<"a">> >> >>

\* The pattern of a search text: every "*" stands as ".*", every other character
\* as itself.
PatternOf(text) ==
    LET stars(i) == Cardinality({j \in 1..i : text[j] = "*"})
    IN  [p \in 1..(Len(text) + stars(Len(text))) |->
            IF \E i \in 1..Len(text) : p = i + stars(i - 1)
            THEN LET i == CHOOSE i \in 1..Len(text) : p = i + stars(i - 1)
                 IN  IF text[i] = "*" THEN "." ELSE text[i]
            ELSE "*"]

\* C19: the debounce is trailing-edge with cancel-and-restart: at any time at most
\* one filter application is pending; a filter applied since the latest
\* set_filter_text came no sooner than 200 ms after that call; and it used the text
\* of that call.
C19_Debounce ==
    /\ Len(search_timer.pending) <= 1
    /\ filter_log.applied > 0 =>
          /\ filter_log.waited >= FilterDelay
          /\ filter_regex = PatternOf(filter_log.text)

\* The text was changed twice, the second time while the first delay was running;
\* the filter was applied once, with the second text.
C19_Witness ==
    /\ filter_log.calls = 2 /\ filter_log.applied = 1
    /\ filter_log.text = <<"a", "*">>
    /\ filter_regex = <<"a", ".", "*">>
    /\ search_timer.pending = <<>>

\* The filter has been applied exactly once since the latest set_filter_text, with
\* the pattern of its text, and nothing is pending.
AppliedOnce ==
    /\ search_timer.pending = <<>>
    /\ filter_log.applied = 1
    /\ filter_regex = PatternOf(filter_log.text)

\* C20: with the event loop running, every set_filter_text(t) that is not followed
\* by another one leads to the filter applied exactly once with the pattern of t;
\* and between two calls of set_filter_text the filter is never applied twice.
C20_AppliedOnce ==
    /\ \A n \in 1..MaxCalls :
          (filter_log.calls = n) ~> (filter_log.calls # n \/ AppliedOnce)
    /\ [](filter_log.applied <= 1)
    /\ [][(AppliedOnce /\ filter_log'.calls = filter_log.calls) => AppliedOnce']_vars

\* "*b" was typed last and the filter was applied once, with ".*b".
C20_Witness ==
    /\ AppliedOnce
    /\ filter_log.calls = MaxCalls
    /\ filter_log.text = <<"*", "b">>
    /\ filter_regex = <<".", "*", "b">>

-----------------------------------------------------------------------------
(* C21 .. C30                                                              *)

\* The call of import_custom_data_points has run: returned, or left by an exception.
ImportDone == arg.op = "import" /\ out # NoCall

\* The dataset as it was when import_custom_data_points was called.
DataBefore == Deref(arg.heap, arg.data)

\* What the i-th function of the script does when called on the dataset as it was.
OwnCall(i) ==
    LET fresh == Alloc(arg.heap, DataBefore)
    IN  CallFunc(fresh.heap, fresh.id, arg.script[i])

\* A number as a one-element series.
AsSeries(v) == IF v.tag = "num" THEN Arr(v.a) ELSE v

IsPair(r) == ~r.raised /\ r.result.tag = "tuple" /\ Len(r.result.d) = 2

\* The function raised, returned something other than a 2-tuple, or returned an
\* empty x or y.
Skipped(r) ==
    \/ ~IsPair(r)
    \/ \E j \in 1..2 : AsSeries(r.result.d[j]) = Arr(<<>>)

\* The function returned a pair of non-empty series (or numbers).
ValidPair(r) ==
    /\ IsPair(r)
    /\ \A j \in 1..2 : AsSeries(r.result.d[j]).tag = "arr" /\ AsSeries(r.result.d[j]).a # <<>>

\* C21: import_custom_data_points isolates failures per candidate: it returns a
\* mapping; a function that raises, returns something other than a 2-tuple, or
\* returns an empty x or y has no entry in it; and every function that returned a
\* pair of non-empty x and y has the entry {x, y} (a number as a one-element
\* series), wherever in the script the functions stand.
C21_IsolatesFailures ==
    ImportDone =>
        /\ ~out.raised
        /\ \A i \in 1..Len(arg.script) :
              LET r == OwnCall(i)
                  name == arg.script[i].name
              IN  /\ Skipped(r) => ~Has(out.ret, name)
                  /\ ValidPair(r) =>
                        /\ Has(out.ret, name)
                        /\ Get(out.ret, name) = Dict(<< Item("x", AsSeries(r.result.d[1])),
                                                        Item("y", AsSeries(r.result.d[2])) >>)

\* C22: executing the functions of a script never changes the live dataset: read
\* through the heap after import_custom_data_points, it is what it was before,
\* whatever a function did to its argument; and a function that only reads its
\* argument sees the dataset as it was, not what a function before it wrote.
C22_DatasetUntouched ==
    ImportDone =>
        /\ Deref(out.heap, arg.data) = DataBefore
        /\ \A i \in 1..Len(arg.script) :
              (arg.script[i].returns = "read" /\ arg.script[i].write = "none"
                 /\ Has(out.ret, arg.script[i].name)) =>
              Get(out.ret, arg.script[i].name)
                 = Dict(<< Item("x", Get(Get(DataBefore, "Radar"), "TimestampLogfile")),
                           Item("y", Get(Get(DataBefore, "Radar"), "Range")) >>)

\* f wrote data["Radar"]["Range"] = [0] and returned a pair, g returned what it read:
\* g's y is the Range of the dataset, which still holds it.
C22_Witness ==
    /\ ImportDone /\ ~out.raised
    /\ Len(arg.script) = 2
    /\ arg.script[1].write = "nested" /\ arg.script[1].returns = "value"
    /\ arg.script[2].write = "none" /\ arg.script[2].returns = "read"
    /\ Has(out.ret, "f") /\ Has(out.ret, "g")
    /\ Get(Get(out.ret, "g"), "y") = Arr(<<10, 11>>)
    /\ Get(Get(Deref(out.heap, arg.data), "Radar"), "Range") = Arr(<<10, 11>>)

\* C23: add_custom_data_points with a non-empty loader result R and group key g: when
\* g is absent from loaded_data it becomes R; otherwise loaded_data[g][f] takes the x
\* and y of R[f] for every function f of R, and every other key of loaded_data[g]
\* keeps its value; every other top-level key of loaded_data keeps its value; and
\* signal_data_addition is emitted exactly once, with g and the names in R. With an
\* empty R nothing changes and nothing is emitted.
C23_AddCustomDataPoints ==
    \A R \in LoaderResults, g \in GroupKeys :
        LET after   == add_custom_data_points(R, loaded_data, g)
            emitted == signal_data_addition(R, g)
        IN  IF R = EmptyDict THEN after = loaded_data /\ emitted = <<>>
            ELSE /\ IF ~Has(loaded_data, g) THEN Get(after, g) = R
                    ELSE LET group == Get(loaded_data, g)
                         IN  /\ Keys(Get(after, g)) = Keys(group) \cup Keys(R)
                             /\ \A f \in Keys(R) :
                                   /\ Get(Get(Get(after, g), f), "x") = Get(Get(R, f), "x")
                                   /\ Get(Get(Get(after, g), f), "y") = Get(Get(R, f), "y")
                             /\ \A k \in Keys(group) \ Keys(R) :
                                   Get(Get(after, g), k) = Get(group, k)
                 /\ Keys(after) = Keys(loaded_data) \cup {g}
                 /\ \A k \in Keys(loaded_data) \ {g} : Get(after, k) = Get(loaded_data, k)
                 /\ Len(emitted) = 1
                 /\ emitted[1].parent_key = g
                 /\ Len(emitted[1].child_keys) = Cardinality(Keys(R))
                 /\ {emitted[1].child_keys[i] : i \in 1..Len(emitted[1].child_keys)} = Keys(R)

\* Custom data points were added to the recording, whose group CustomItems holds P:
\* adding Q keeps P and Radar, adding P with other values updates P's x and y.
C23_Witness ==
    /\ last.op = "custom"
    /\ Has(loaded_data, "Radar") /\ Has(loaded_data, "CustomItems")
    /\ Get(loaded_data, "CustomItems") = CustomP
    /\ Get(add_custom_data_points(CustomQ, loaded_data, "CustomItems"), "CustomItems")
          = Dict(CustomP.d \o CustomQ.d)
    /\ Get(add_custom_data_points(CustomP2, loaded_data, "CustomItems"), "CustomItems") = CustomP2

\* The tree model has been generated from the data.
TreeDone == arg.op = "tree" /\ out # NoCall

\* The key paths of a nested mapping: every key, and every key followed by a key
\* path of the mapping it holds.
RECURSIVE KeyPaths(_)
KeyPaths(data) ==
    IF ~IsDict(data) THEN {}
    ELSE UNION { {<<data.d[i].k>>} \cup {<<data.d[i].k>> \o q : q \in KeyPaths(data.d[i].v)}
                 : i \in 1..Len(data.d) }

\* The value a key path addresses.
RECURSIVE ValueAt(_, _)
ValueAt(data, path) ==
    IF path = <<>> THEN data ELSE ValueAt(Get(data, Head(path)), Tail(path))

\* The keys of a value in their order; none for a value that is no mapping.
KeysInOrder(v) == IF IsDict(v) THEN [i \in 1..Len(v.d) |-> v.d[i].k] ELSE <<>>

\* The texts of the children of an item (0: of the top-level items), in row order.
ChildTexts(model, item) ==
    LET rows == IF item = 0 THEN model.rows ELSE model.items[item].rows
    IN  [r \in 1..Len(rows) |-> model.items[rows[r]].text]

\* Paths of up to three names, most of them with a segment the data does not have.
ProbeNames == {"a", "b", "ab", "Ab", "C", "zz"}
ProbePaths == UNION {[1..n -> ProbeNames] : n \in 1..3}

SameLetter(x, y) == x = y \/ {x, y} \in {{"a", "A"}, {"b", "B"}, {"c", "C"}}

\* The search text fits the start of a name: "*" stands for any run of characters,
\* every other character for itself in either case.
RECURSIVE FitsHere(_, _)
FitsHere(text, name) ==
    IF text = <<>> THEN TRUE
    ELSE IF Head(text) = "*"
    THEN \E n \in 0..Len(name) : FitsHere(Tail(text), SubSeq(name, n + 1, Len(name)))
    ELSE name # <<>> /\ SameLetter(Head(text), Head(name)) /\ FitsHere(Tail(text), Tail(name))

\* The search text is found in the name of an item.
NameMatches(text, model, n) ==
    LET name == Spelling(model.items[n].text)
    IN  \E i \in 1..(Len(name) + 1) : FitsHere(text, SubSeq(name, i, Len(name)))

\* The items at any depth below n.
RECURSIVE Below(_, _)
Below(model, n) ==
    LET kids == {model.items[n].rows[r] : r \in 1..Len(model.items[n].rows)}
    IN  kids \cup UNION {Below(model, c) : c \in kids}

\* filterAcceptsRow for the item n, with the pattern in force.
Accepted(model, n) ==
    LET siblings == IF model.items[n].parent = 0 THEN model.rows
                    ELSE model.items[model.items[n].parent].rows
    IN  filterAcceptsRow(model, filter_regex,
                         CHOOSE r \in 1..Len(siblings) : siblings[r] = n,
                         model.items[n].parent)

\* C25: with the pattern of a search text in force, an item of the tree is accepted
\* if and only if the text is found in its own name or in the name of an item at any
\* depth below it ("*" for any substring, case ignored); so every ancestor of an item
\* whose name matches is accepted.
C25_FilterAccepts ==
    TreeDone =>
        \A text \in TreeFilterTexts :
            filter_regex = PatternOf(text) =>
            \A n \in 1..Len(out.model.items) :
                /\ Accepted(out.model, n)
                      <=> (\/ NameMatches(text, out.model, n)
                           \/ \E d \in Below(out.model, n) : NameMatches(text, out.model, d))
                /\ NameMatches(text, out.model, n) =>
                      \A a \in 1..Len(out.model.items) :
                          n \in Below(out.model, a) => Accepted(out.model, a)

\* "a*b" is in force on the tree of TreeA: Ab is accepted by its own name, its child
\* C by ab two levels below Ab, and ba (with its child a) is not.
C25_Witness ==
    /\ TreeDone /\ arg.data = TreeA
    /\ filter_log.applied = 1 /\ filter_regex = <<"a", ".", "*", "b">>
    /\ \E n \in 1..Len(out.model.items) :
          /\ qt_item_to_path(out.model, n) = <<"Ab", "C">>
          /\ Accepted(out.model, n)
          /\ ~hasMatch(filter_regex, Spelling("C"))
    /\ \E n \in 1..Len(out.model.items) :
          /\ qt_item_to_path(out.model, n) = <<"ba">>
          /\ ~Accepted(out.model, n)

\* loadmat has returned
DecodeDone == out.op = "loadmat"

Alphabet == <<"a", "b", "c">>

\* The place of a letter in the alphabet, whatever its case.
LetterPlace(ch) == CHOOSE i \in 1..Len(Alphabet) : SameLetter(Alphabet[i], ch)

\* The first spelling does not come after the second in the lexical order that
\* ignores case.
RECURSIVE NotAfter(_, _)
NotAfter(x, y) ==
    IF x = <<>> THEN TRUE
    ELSE IF y = <<>> THEN FALSE
    ELSE IF SameLetter(Head(x), Head(y)) THEN NotAfter(Tail(x), Tail(y))
    ELSE LetterPlace(Head(x)) < LetterPlace(Head(y))

\* The keys of a mapping, and of every mapping below it, come in that order.
RECURSIVE KeysOrdered(_)
KeysOrdered(x) ==
    x.tag = "dict" =>
        /\ \A i \in 1..(Len(x.d) - 1) : NotAfter(Spelling(x.d[i].k), Spelling(x.d[i + 1].k))
        /\ \A i \in 1..Len(x.d) : KeysOrdered(x.d[i].v)

\* A decoded value stands for a value of the file: a struct has become a mapping with
\* exactly its field names, each standing for its field; anything else is itself.
RECURSIVE StandsFor(_, _)
StandsFor(decoded, raw) ==
    IF raw.tag = "struct"
    THEN /\ decoded.tag = "dict"
         /\ Len(decoded.d) = Len(raw.d)
         /\ \A i \in 1..Len(raw.d) :
               /\ \E j \in 1..Len(decoded.d) : decoded.d[j].k = raw.d[i].k
               /\ \A j \in 1..Len(decoded.d) :
                     decoded.d[j].k = raw.d[i].k => StandsFor(decoded.d[j].v, raw.d[i].v)
    ELSE decoded = raw

\* The names of the metadata scipy adds.
MetaNames == {"__header__", "__version__", "__globals__"}

\* C26: the dataset the decoder returns holds none of the metadata keys, holds for
\* every struct of the file, at every depth, a mapping with exactly the field names of
\* the struct, and has its keys in the lexical order that ignores case at every level,
\* the top level included.
C26_Decoded ==
    DecodeDone =>
        /\ \A i \in 1..Len(out.ret.d) : out.ret.d[i].k \notin MetaNames
        /\ \A i \in 1..Len(arg.data.d) :
              arg.data.d[i].k \notin MetaNames =>
                 \E j \in 1..Len(out.ret.d) :
                     /\ out.ret.d[j].k = arg.data.d[i].k
                     /\ StandsFor(out.ret.d[j].v, arg.data.d[i].v)
        /\ KeysOrdered(out.ret)

-----------------------------------------------------------------------------
(* C27 .. C30                                                              *)

\* The reference in force, as a number: nothing is subtracted while it is unset.
RefInForce == IF global_ts_ref.some THEN global_ts_ref.v ELSE 0

\* Every ts a store holds, at parent level or in a custom child, is the ts_raw beside
\* it minus v.
EveryTsShifted(mem, v) ==
    \A i \in 1..DictLen(mem) :
        LET entry == mem.d[i].v
        IN  /\ Has(entry, "ts") => TsMatches(entry, v)
            /\ \A c \in CustomChildren(entry) :
                  Has(entry.d[c].v, "ts") => TsMatches(entry.d[c].v, v)

\* C27: in every reachable state, every ts held in either store equals its ts_raw
\* minus the current global_ts_ref (ts_raw itself while the reference is unset),
\* whatever the order of loads, selects, deselects, updates and resets of the
\* reference, clearing and added custom data points before.
C27_TsFollowsRef ==
    /\ EveryTsShifted(selected_signals_data, RefInForce)
    /\ EveryTsShifted(selected_di_only_data, RefInForce)

\* The signals a store holds, as pairs of parent and child.
SignalsIn(mem) ==
    UNION {{<<mem.d[i].k, mem.d[i].v.d[c].k>> : c \in Children(mem.d[i].v)} :
              i \in 1..DictLen(mem)}

\* A signal of the store before is in the store after with what it had: its values
\* (for a custom child its own ts, ts_raw and val) and, for a plain child, the ts and
\* ts_raw of its parent.
KeptAsItWas(before, after, sig) ==
    /\ Has(after, sig[1]) /\ Has(Get(after, sig[1]), sig[2])
    /\ Get(Get(after, sig[1]), sig[2]) = Get(Get(before, sig[1]), sig[2])
    /\ ~IsDict(Get(Get(before, sig[1]), sig[2])) =>
          \A k \in BookKeys :
              Has(Get(before, sig[1]), k) =>
                  /\ Has(Get(after, sig[1]), k)
                  /\ Get(Get(after, sig[1]), k) = Get(Get(before, sig[1]), k)

\* The signal a path names.
SignalOf(path) == IF Len(path) < 2 THEN {} ELSE {<<ParentOf(path), ChildOf(path)>>}

\* C28: a deselect of P from a store removes only P: every other signal of that store,
\* custom children and plain children of P's parent included, stays selected with its
\* ts, ts_raw and values, and the other store is left as it was; a select into a store
\* leaves the other store as it was.
C28_RemovesOnlyP ==
    [][ /\ last'.op = "deselect" =>
              \/ /\ selected_di_only_data' = selected_di_only_data
                 /\ \A sig \in SignalsIn(selected_signals_data) \ SignalOf(last'.path) :
                       KeptAsItWas(selected_signals_data, selected_signals_data', sig)
              \/ /\ selected_signals_data' = selected_signals_data
                 /\ \A sig \in SignalsIn(selected_di_only_data) \ SignalOf(last'.path) :
                       KeptAsItWas(selected_di_only_data, selected_di_only_data', sig)
        /\ last'.op = "select" =>
              \/ selected_di_only_data' = selected_di_only_data
              \/ selected_signals_data' = selected_signals_data
      ]_vars

\* The ts and ts_raw of a parent are in the second store what they are in the first.
SameBook(before, after, parent) ==
    /\ Has(after, parent)
    /\ \A k \in BookKeys :
          /\ Has(Get(after, parent), k) <=> Has(Get(before, parent), k)
          /\ Has(Get(before, parent), k) => Get(Get(after, parent), k) = Get(Get(before, parent), k)

\* The value found by following a path of keys from the top of a dataset.
RECURSIVE Resolve(_, _)
Resolve(data, path) ==
    IF path = <<>> THEN data
    ELSE IF IsDict(data) /\ Has(data, Head(path)) THEN Resolve(Get(data, Head(path)), Tail(path))
    ELSE PyNone

\* The path names a plain series of the loaded dataset.
PlainSeriesAt(path) == Resolve(loaded_data, path).tag = "arr"

\* C29: selecting a plain child under a parent name the store already holds leaves the
\* ts and ts_raw of that parent exactly as they are, also when the child is found in
\* another group that has a parent of the same name.
C29_ParentBookKept ==
    \A path \in GroupPaths, store \in PlotStore :
        (PlainSeriesAt(path) /\ Has(Store(store), ParentOf(path))) =>
            LET sel == select_item(Store(store), path, loaded_data, global_ts_ref)
            IN  /\ sel.ret = "true"
                /\ Has(Get(sel.mem, ParentOf(path)), ChildOf(path))
                /\ SameBook(Store(store), sel.mem, ParentOf(path))

\* Speed of the rear radar has just been selected under the parent Radar that the
\* front radar's Range created: ts_raw is still the front radar's time axis.
C29_Witness ==
    /\ last.op = "select" /\ last.ret = "true" /\ last.path = <<"Rear", "Radar", "Speed">>
    /\ Has(selected_signals_data, "Radar")
    /\ Has(Get(selected_signals_data, "Radar"), "Speed")
    /\ Has(Get(selected_signals_data, "Radar"), "Range")
    /\ Has(Get(selected_signals_data, "Radar"), "ts_raw")
    /\ Get(Get(selected_signals_data, "Radar"), "Range") = Arr(<<10, 11>>)
    /\ Get(Get(selected_signals_data, "Radar"), "ts_raw") = Arr(<<1, 2>>)
    /\ Get(Resolve(loaded_data, <<"Rear", "Radar">>), "TimestampLogfile") = Arr(<<5, 6>>)

\* The calls that act on a store without loading or clearing.
StoreCalls == {"select", "deselect", "update", "reset"}

\* Every ts_raw of the first store that the second store still has a place for, at
\* parent level or in a custom child, has the same value there.
RawKept(before, after) ==
    \A i \in 1..DictLen(before) :
        LET parent == before.d[i].k
            entry  == before.d[i].v
        IN  Has(after, parent) =>
              /\ (Has(entry, "ts_raw") /\ Has(Get(after, parent), "ts_raw")) =>
                     Get(Get(after, parent), "ts_raw") = Get(entry, "ts_raw")
              /\ \A c \in CustomChildren(entry) :
                     (/\ Has(entry.d[c].v, "ts_raw")
                      /\ Has(Get(after, parent), entry.d[c].k)
                      /\ IsDict(Get(Get(after, parent), entry.d[c].k))) =>
                         Get(Get(Get(after, parent), entry.d[c].k), "ts_raw")
                             = Get(entry.d[c].v, "ts_raw")

\* What a select of the path has newly put into the store carries the unadjusted time
\* axis of the data: a new parent the TimestampLogfile of its group, a custom child
\* its own x.
RawFromData(before, after, path) ==
    LET parent == ParentOf(path)
        child  == ChildOf(path)
        group  == GroupOf(path).val
    IN  /\ (~Has(before, parent) /\ Has(after, parent) /\ Has(Get(after, parent), "ts_raw")) =>
              /\ Has(group, "TimestampLogfile")
              /\ Get(Get(after, parent), "ts_raw") = Get(group, "TimestampLogfile")
        /\ (/\ Has(after, parent) /\ Has(Get(after, parent), child)
            /\ IsDict(Get(Get(after, parent), child))
            /\ ~(Has(before, parent) /\ Has(Get(before, parent), child))) =>
              /\ Has(group, child) /\ IsDict(Get(group, child)) /\ Has(Get(group, child), "x")
              /\ Get(Get(Get(after, parent), child), "ts_raw") = Get(Get(group, child), "x")

-----------------------------------------------------------------------------
(* C31 .. C39                                                              *)

\* A mapping without its key ts.
WithoutTs(m) == Dict(SelectSeq(m.d, LAMBDA e : e.k # "ts"))

\* A store with every ts taken out, at parent level and in each custom child: what is
\* left are the selected pairs, every ts_raw and every value series.
AllButTs(mem) ==
    Dict([i \in 1..DictLen(mem) |->
            Item(mem.d[i].k,
                 LET entry == WithoutTs(mem.d[i].v)
                 IN  Dict([c \in 1..DictLen(entry) |->
                             Item(entry.d[c].k,
                                  IF IsDict(entry.d[c].v) THEN WithoutTs(entry.d[c].v)
                                  ELSE entry.d[c].v)]))])

\* C31: update_global_ts_ref changes nothing but global_ts_ref and the ts fields: for
\* every argument and in every state it returns without an error, and the selected
\* pairs of each store, every ts_raw, every value series, loaded_data and
\* loaded_ts_ref are after the call what they were before it.
C31_UpdateFrame ==
    [][ last'.op = "update" =>
           /\ last'.ret # "raise"
           /\ AllButTs(selected_signals_data') = AllButTs(selected_signals_data)
           /\ AllButTs(selected_di_only_data') = AllButTs(selected_di_only_data)
           /\ loaded_data' = loaded_data
           /\ loaded_ts_ref' = loaded_ts_ref
      ]_vars

\* The paths asked about: the signals of the recording with two groups, and the
\* bookkeeping keys of a parent taken as child names.
AskedPaths == GroupPaths \cup { <<"Front", "Radar", "ts">>, <<"Front", "Radar", "ts_raw">> }

\* C32: is_selected(P) is true exactly for the signals that a select which returned
\* true has added and that no deselect and no file load has removed since. Step by
\* step in the plot store: a select that returns true adds its own path and no other,
\* a deselect that returns true removes its own path and no other, a load removes
\* all, and every other call leaves the answer for every path as it was.
C32_IsSelected ==
    [][ \A P \in AskedPaths :
           LET was == is_selected(selected_signals_data, P)
               is  == is_selected(selected_signals_data', P)
           IN  CASE last'.op = "select" /\ last'.ret = "true" -> (is <=> (was \/ P = last'.path))
                 [] last'.op = "deselect" /\ last'.ret = "true" -> (is <=> (was /\ P # last'.path))
                 [] last'.op = "load" -> ~is
                 [] OTHER -> (is <=> was)
      ]_vars

\* The paths handed to select: the signals of the recording, a child name that only
\* the other group has, and a group that does not exist.
TriedPaths == GroupPaths \cup { <<"Front", "Radar", "Speed">>, <<"Left", "Radar", "Range">> }

\* The path leads, key by key, to an entry of the loaded dataset.
InDataset(path) == Resolve(loaded_data, path) # PyNone

\* C33: whenever select(P) returns true, the child key of P exists in the group P
\* resolves to, and so the tree generated from the loaded dataset has an item for P.
C33_SelectedIsInTree ==
    \A path \in TriedPaths, store \in Stores :
        select_item(Store(store), path, loaded_data, global_ts_ref).ret = "true" =>
            /\ InDataset(path)
            /\ find_tree_item_by_path(generate_tree_model(loaded_data), path).found

\* C34: whatever the sequence of left and right double clicks, loads of conf files and
\* recordings and clearings, no signal (parent, child) is in the plot store and in the
\* data-insight store at the same time.
C34_StoresExclusive ==
    SignalsIn(selected_signals_data) \cap SignalsIn(selected_di_only_data) = {}

\* A left double click has just moved Radar/Range from the data-insight store, where
\* Speed stays, to the plot store.
C34_Witness ==
    /\ last.op = "left" /\ last.ret = "moved"
    /\ <<"Radar", "Range">> \in SignalsIn(selected_signals_data)
    /\ SignalsIn(selected_di_only_data) = { <<"Radar", "Speed">> }

\* handle_dropped_files has returned, or an exception has left it
DropDone == out.op = "drop"

\* The places of the dropped list that hold a file with the suffix, in order.
PlacesOf(suffix) == {i \in 1..Len(arg.filepaths) : arg.filepaths[i].suffix = suffix}

\* The places of the log that hold a call of the kind, in order.
CallsOf(op) == {i \in 1..Len(out.log) : out.log[i].op = op}

\* The names found at a set of places of a sequence, in the order of the places.
RECURSIVE NamesAt(_, _, _)
NamesAt(seq, places, field) ==
    IF places = {} THEN <<>>
    ELSE LET i == CHOOSE p \in places : \A q \in places : p <= q
         IN  <<seq[i][field]>> \o NamesAt(seq, places \ {i}, field)

\* C35: handle_dropped_files handles a batch in a fixed order, whatever the order of
\* the dropped list: at most one .mat file is loaded, the last of the list, before any
\* script runs; every script runs, a failing one included and those after it, each
\* with that recording in place and before any conf file is parsed; and failing
\* scripts do not keep the conf files from being parsed.
C35_DropOrder ==
    DropDone =>
        LET mats    == PlacesOf(".mat")
            loads   == CallsOf("set_and_load_mat")
            scripts == CallsOf("add_custom_data_points")
            confs   == CallsOf("parse_and_load_conf")
        IN  /\ Cardinality(loads) <= 1
            /\ (mats # {}) =>
                  /\ loads = {1}
                  /\ out.log[1].file = arg.filepaths[CHOOSE i \in mats : \A j \in mats : j <= i].name
            /\ (mats = {}) => loads = {}
            /\ NamesAt(out.log, scripts, "file") = NamesAt(arg.filepaths, PlacesOf(".py"), "name")
            /\ \A i \in scripts :
                  /\ \A l \in loads : l < i /\ out.log[i].mat = out.log[l].file
                  /\ \A c \in confs : i < c
            /\ (PlacesOf(".conf") # {}) =>
                  /\ confs # {}
                  /\ \E n \in 1..Cardinality(PlacesOf(".conf")) :
                        /\ NamesAt(out.log, confs, "file")
                              = SubSeq(NamesAt(arg.filepaths, PlacesOf(".conf"), "name"), 1, n)
                        /\ (n < Cardinality(PlacesOf(".conf"))) => out.raised

\* A conf file, a failing script, a working script and a recording were dropped in
\* this order: the recording was loaded first, both scripts ran, then the conf file.
C35_Witness ==
    /\ DropDone
    /\ arg.filepaths = << File("c1", ".conf", TRUE), File("p2", ".py", FALSE),
                          File("m1", ".mat", TRUE) >>
    /\ Len(out.log) = 3
    /\ out.log[3].op = "parse_and_load_conf"

\* The signal path a line of a conf file names: its tokens, each written as one piece.
PathOf(tokens) == [i \in 1..Len(tokens) |-> tokens[i][1]]

\* The path leads to a series under a parent with a time axis, and the tree has its item.
Loadable(path) ==
    /\ InDataset(path)
    /\ select_item(EmptyDict, path, loaded_data, global_ts_ref).ret = "true"
    /\ find_tree_item_by_path(generate_tree_model(loaded_data), path).found

\* What a store holds for a selected signal: its values and its parent's time axis.
StoredAt(mem, path) ==
    LET item == Get(mem, path[Len(path) - 1])
    IN  [val |-> Get(item, path[Len(path)]),
         ts  |-> IF Has(item, "ts") THEN Get(item, "ts") ELSE PyNone]

\* C36: parse_and_load_conf takes each primary line of the conf file as a signal path.
\* After the call every such path that resolves in loaded_data under a parent with a
\* time axis and has a tree item is in the plot store; no error leaves the call; the
\* paths selected before are as they were; and signal_update_qva was emitted once if a
\* path was added and not at all otherwise.
C36_ConfSelects ==
    [][ last'.op = "conf" =>
           LET lines == {PathOf(out'.parsed_data[i]) : i \in 1..Len(out'.parsed_data)}
               added == {P \in lines : ~is_selected(selected_signals_data, P)
                                        /\ is_selected(selected_signals_data', P)}
           IN  /\ last'.ret # "raise"
               /\ \A P \in lines : Loadable(P) => is_selected(selected_signals_data', P)
               /\ \A P \in GroupPaths :
                     is_selected(selected_signals_data, P) =>
                        /\ is_selected(selected_signals_data', P)
                        /\ StoredAt(selected_signals_data', P) = StoredAt(selected_signals_data, P)
               /\ out'.updates = (IF added = {} THEN 0 ELSE 1)
      ]_vars

\* The part of C36 the code keeps whenever the call returns: the store is what it was
\* and nothing is emitted.
C36_ConfSelectsNothing ==
    [][ last'.op = "conf" =>
           /\ selected_signals_data' = selected_signals_data
           /\ out'.plots = <<>> /\ out'.updates = 0
           /\ (last'.ret = "raise" <=> Len(out'.parsed_data) >= 2)
      ]_vars

\* The signals of a store with what is displayed for each: its name pair, its
\* timestamps (a custom child's own ts, else the parent entry's ts) and its values.
Shown(mem) ==
    UNION { { [parent |-> mem.d[i].k, child |-> mem.d[i].v.d[j].k,
               ts  |-> IF IsDict(mem.d[i].v.d[j].v) THEN GetOr(mem.d[i].v.d[j].v, "ts", PyNone)
                       ELSE GetOr(mem.d[i].v, "ts", PyNone),
               val |-> IF IsDict(mem.d[i].v.d[j].v) THEN GetOr(mem.d[i].v.d[j].v, "val", PyNone)
                       ELSE mem.d[i].v.d[j].v] :
              j \in {n \in 1..DictLen(mem.d[i].v) :
                        ~(mem.d[i].v.d[n].k \in BookKeys /\ ~IsDict(mem.d[i].v.d[n].v))} } :
            i \in 1..DictLen(mem) }

\* The smallest place of x whose distance to t is the least.
Nearest(x, t) ==
    LET dist(i) == IF x[i] >= t THEN x[i] - t ELSE t - x[i]
        best == {i \in 1..Len(x) : \A j \in 1..Len(x) : dist(i) <= dist(j)}
    IN  CHOOSE i \in best : \A j \in best : i <= j

\* The entry of di_dict for a signal: under the child name or under parent/child.
EntryFor(di_dict, s, t) ==
    \E name \in {<<s.child>>, <<s.parent, "/", s.child>>} :
        /\ Has(di_dict, name)
        /\ s.ts # PyNone
        /\ Get(di_dict, name) = s.val.a[Nearest(s.ts.a, t)]

\* C37: get_time_based_data_insight returns, for every plotted series and every
\* signal of the data-insight store, the value at the smallest index that minimises
\* |x[i] - ref_time| over the signal's own timestamps (the parent entry's ts for a
\* plain child, its own ts for a custom child), one entry per signal, and no error
\* leaves the call.
C37_NearestValue ==
    [][ last'.op = "insight" =>
           LET plotted == {s \in Shown(selected_signals_data) : s.ts # PyNone}
               insight == Shown(selected_di_only_data)
           IN  /\ last'.ret = "ok"
               /\ \A s \in plotted \cup insight : EntryFor(out'.di_dict, s, out'.ref_time)
               /\ DictLen(out'.di_dict) = Cardinality(plotted) + Cardinality(insight)
      ]_vars

\* C37 in the states in which every entry of the data-insight store with a plain child
\* has its ts (the invariant of C6).
C37_NearestValueWithTs ==
    [][ ( /\ last'.op = "insight"
          /\ \A s \in Shown(selected_di_only_data) : s.ts # PyNone ) =>
           LET plotted == {s \in Shown(selected_signals_data) : s.ts # PyNone}
               insight == Shown(selected_di_only_data)
           IN  /\ last'.ret = "ok"
               /\ \A s \in plotted \cup insight : EntryFor(out'.di_dict, s, out'.ref_time)
               /\ DictLen(out'.di_dict) = Cardinality(plotted) + Cardinality(insight)
      ]_vars

\* The signals of the two stores in the order of the merged mapping: the parents of
\* the plot store, then the other parents of the data-insight store; under a parent
\* the children of the plot store, then the other children of the data-insight store.
SignalsInOrder(sig, di) ==
    LET merged == MergeOf(sig, di)
        Of(i)  == LET kept == SelectSeq(merged.d[i].v.d, LAMBDA e :
                                  ~(e.k \in BookKeys /\ ~IsDict(e.v)))
                  IN  [j \in 1..Len(kept) |->
                         [parent |-> merged.d[i].k, child |-> kept[j].k,
                          first  |-> IF IsDict(kept[j].v) THEN Get(kept[j].v, "val").a[1]
                                     ELSE kept[j].v.a[1]]]
        RECURSIVE From(_)
        From(i) == IF i > DictLen(merged) THEN <<>> ELSE Of(i) \o From(i + 1)
    IN  From(1)

\* The display name of the n-th signal: the child name for the first signal with
\* that child name, parent/child for every later one.
DisplayName(signals, n) ==
    IF \E m \in 1..(n - 1) : signals[m].child = signals[n].child
    THEN <<signals[n].parent, "/", signals[n].child>>
    ELSE <<signals[n].child>>

\* C38: get_default_data_insight yields one entry per signal selected in either store
\* and no other (none for ts and ts_raw), each with the signal's value at index 0, the
\* first signal with a child name under that name and every later one under
\* parent/child, so that no entry is overwritten; and both stores are after the call
\* what they were before it.
C38_DefaultInsight ==
    [][ last'.op = "default" =>
           LET signals == SignalsInOrder(selected_signals_data, selected_di_only_data)
           IN  /\ last'.ret = "ok"
               /\ DictLen(out'.di_dict) = Len(signals)
               /\ Len(signals) = Cardinality(Shown(selected_signals_data))
                                   + Cardinality(Shown(selected_di_only_data))
               /\ \A n \in 1..Len(signals) :
                     /\ Has(out'.di_dict, DisplayName(signals, n))
                     /\ Get(out'.di_dict, DisplayName(signals, n)) = signals[n].first
               /\ selected_signals_data' = selected_signals_data
               /\ selected_di_only_data' = selected_di_only_data
      ]_vars

\* The default insight was just taken with Range of CustomItems plotted, Range of
\* Lidar and the custom item P in the data-insight store: three entries, Range of
\* Lidar under Lidar/Range.
C38_Witness ==
    /\ last.op = "default" /\ last.ret = "ok"
    /\ out.op = "default"
    /\ DictLen(out.di_dict) = 3
    /\ Has(out.di_dict, <<"Range">>) /\ Get(out.di_dict, <<"Range">>) = 10
    /\ Has(out.di_dict, <<"Lidar", "/", "Range">>)
    /\ Get(out.di_dict, <<"Lidar", "/", "Range">>) = 20
    /\ Has(out.di_dict, <<"P">>) /\ Get(out.di_dict, <<"P">>) = 4

\* The colour an item has had since it asked for it is the colour it keeps: a step
\* takes an item out of use only by releasing it or by a reset, and changes the
\* colour of no item in use; get_color for an item in use returns its colour.
StableColours ==
    /\ \A item_id \in InUse(cm) :
          \/ cm'.colors_in_use_by_item[item_id] = cm.colors_in_use_by_item[item_id]
          \/ /\ cm'.colors_in_use_by_item[item_id] = 0
             /\ \/ last'.op = "reset"
                \/ last'.op = "release_color" /\ last'.path = <<item_id>>
    /\ (last'.op = "get_color") =>
          cm'.colors_in_use_by_item[last'.path[1]] = last'.ret

\* No two items in use have the same colour.
DistinctColours(c) ==
    \A i, j \in InUse(c) : i # j => c.colors_in_use_by_item[i] # c.colors_in_use_by_item[j]

\* C39: after any sequence of get_color, release_color and reset calls, also one that
\* had more items in use than the palette has colours and released items since, an
\* item keeps its colour until it is released, and whenever at most len(palette)
\* items are in use, no two of them have the same colour.
C39_ColoursDistinct ==
    [][ /\ StableColours
        /\ (Cardinality(InUse(cm')) <= Len(all_colors)) => DistinctColours(cm')
      ]_vars

\* Every colour of the palette is exactly once among the available colours and the
\* colours in use.
EachColourOnce(c) ==
    /\ Len(c.available_colors) + Cardinality(InUse(c)) = Len(all_colors)
    /\ \A k \in 1..Len(all_colors) :
          \/ \E n \in 1..Len(c.available_colors) : c.available_colors[n] = k
          \/ \E i \in InUse(c) : c.colors_in_use_by_item[i] = k

\* The part of C39 that holds in every step: an item keeps its colour until it is
\* released; and every call but a get_color that finds no colour available keeps
\* every colour of the palette exactly once among the available colours and the
\* colours in use, so that until the first such call after a reset no two items in
\* use have the same colour.
C39_DistinctWithoutOverflow ==
    [][ /\ StableColours
        /\ ( /\ EachColourOnce(cm)
             /\ ~( /\ last'.op = "get_color"
                   /\ cm.available_colors = <<>>
                   /\ last'.path[1] \notin InUse(cm) ) )
             => (EachColourOnce(cm') /\ DistinctColours(cm'))
        /\ (last'.op = "reset") => EachColourOnce(cm')
      ]_vars

====
